---- MODULE Spec2Model ----
(***************************************************************************)
(* TAO dashboard: the snapshot store written by the cron handler and the   *)
(* analytics routes that read it (performance attribution, anomaly         *)
(* signals, realized-APY history).                                         *)
(*                                                                         *)
(* Numbers.  The routes compute in IEEE doubles; the model computes in     *)
(* exact integers and rationals (a rational is kept as numerator over a    *)
(* stated denominator), so sums are exact and a formatted number is the    *)
(* correctly rounded one.  Time is counted in ticks, TicksPerDay to a day. *)
(***************************************************************************)
EXTENDS Integers, Sequences, FiniteSets, TLC

VARIABLES
    portfolioSnapshots,     \* table portfolio_snapshots: set of rows
    positionSnapshots,      \* table position_snapshots: set of rows
    subnetMetricSnapshots,  \* table subnet_metric_snapshots: set of rows
    cronRuns,               \* table cron_runs: set of rows
    cron,                   \* the invocations of the cron handler: locals and position
    clock,                  \* the time, in ticks
    perfResp,               \* last response of the performance route, or NoResp
    sigResp,                \* last response of the signals route, or NoResp
    histResp,               \* last response of the history route, or NoResp
    call                    \* last call of a helper function: arguments and result

\* All rows belong to the one tracked address (COLDKEY_ADDRESS), so the
\* address column and its equality tests are left out.  A row carries the
\* columns that the routes of the specification at hand read.

vars == <<portfolioSnapshots, positionSnapshots, subnetMetricSnapshots, cronRuns,
          cron, clock, perfResp, sigResp, histResp, call>>

dbVars == <<portfolioSnapshots, positionSnapshots>>

cronVars == <<cronRuns, cron, clock>>

----------------------------------------------------------------------------
(* Bounds of the model *)

\* ticks in one day (the routes use 24 * 60 * 60 * 1000 ms)
TicksPerDay == 2

\* snapshots stored for the performance route
MaxSnaps == 3

\* invocations of the cron handler, which may overlap
MaxInvocations == 2

\* the last tick of the clock
MaxClock == 2

\* the longest metric history stored before the day of the signals
MaxHist == 15

----------------------------------------------------------------------------
(* Values *)

\* a nullable value is the empty tuple (null, NaN, -Infinity, the "" marker)
\* or a one-element tuple holding the value
None == <<>>

Some(x) == <<x>>

NoResp == [kind |-> "none"]

Abs(x) == IF x < 0 THEN -x ELSE x

Max2(a, b) == IF a >= b THEN a ELSE b

RECURSIVE Gcd(_, _)
Gcd(a, b) == IF b = 0 THEN a ELSE Gcd(b, a % b)

Lcm(a, b) == (a * b) \div Gcd(a, b)

RECURSIVE LcmOf(_)
LcmOf(S) ==
    IF S = {} THEN 1
    ELSE LET x == CHOOSE y \in S : TRUE
         IN  Lcm(x, LcmOf(S \ {x}))

RECURSIVE SumOver(_, _)
\* sum of f[x] over x in S
SumOver(f, S) ==
    IF S = {} THEN 0
    ELSE LET x == CHOOSE y \in S : TRUE
         IN  f[x] + SumOver(f, S \ {x})

\* n / d rounded to the nearest integer, halves away from zero
RoundDiv(n, d) ==
    LET q == (2 * Abs(n) + d) \div (2 * d)
    IN  IF n < 0 THEN -q ELSE q

\* Number.prototype.toFixed(4) of the rational n / d, in units of 1e-4
toFixed4(n, d) == RoundDiv(n * 10000, d)

\* Map.get(k) ?? 0 and Map.set(k, v) on a map kept as a function
Get(m, k) == IF k \in DOMAIN m THEN m[k] ELSE 0

Put(m, k, v) == [x \in (DOMAIN m) \cup {k} |-> IF x = k THEN v ELSE m[x]]

EmptyMap == [x \in {} |-> 0]

----------------------------------------------------------------------------
(* Strings: a string is a sequence of one-character tokens *)

DigitChars == <<"0", "1", "2", "3", "4", "5", "6", "7", "8", "9">>

RECURSIVE NumStr(_)
\* String(n) of a non-negative integer: its decimal digits
NumStr(n) ==
    IF n < 10 THEN <<DigitChars[n + 1]>>
    ELSE NumStr(n \div 10) \o <<DigitChars[(n % 10) + 1]>>

\* the value of one digit character
DigitVal(c) == (CHOOSE i \in 1..10 : DigitChars[i] = c) - 1

RECURSIVE StrNum(_)
\* Number(s): the value of a string of digits, 0 for "", NaN for the rest
StrNum(s) ==
    IF s = <<>> THEN Some(0)
    ELSE IF \E i \in 1..Len(s) : \A j \in 1..10 : DigitChars[j] # s[i] THEN None
    ELSE Some(10 * StrNum(SubSeq(s, 1, Len(s) - 1))[1] + DigitVal(s[Len(s)]))

RECURSIVE Split(_, _)
\* String.prototype.split(sep): the pieces between the separators
Split(s, sep) ==
    IF \A i \in 1..Len(s) : s[i] # sep THEN <<s>>
    ELSE LET i == CHOOSE j \in 1..Len(s) :
                     s[j] = sep /\ \A l \in 1..(j - 1) : s[l] # sep
         IN  <<SubSeq(s, 1, i - 1)>> \o Split(SubSeq(s, i + 1, Len(s)), sep)

----------------------------------------------------------------------------
(* Performance route: helpers *)

\* num(x): Number(x), with a non-finite result (and null, which Number
\* turns into 0) becoming 0
num(x) == IF x = None THEN 0 ELSE x[1]

\* pctFrom(start, end) formatted with toFixed(4); "" when start is not > 0
pctFrom(start, end) ==
    IF ~(start > 0) THEN None ELSE Some(toFixed4((end - start) * 100, start))

\* default thresholds of isFlowLikely, in percent
AlphaPctThresholdPct == 5

ValuePctThresholdPct == 10

\* isFlowLikely, mutant: without the test of the relative alpha increase
isFlowLikely_NoAlphaTest(alphaStart, alphaEnd, valueTaoStart, valueTaoEnd, alphaThrPct, valueThrPct) ==
    /\ alphaEnd - alphaStart > 0
    /\ \/ ~(alphaStart > 0)
       \/ /\ valueTaoStart > 0
          /\ Abs(valueTaoEnd - valueTaoStart) * 100 > valueThrPct * valueTaoStart

\* isFlowLikely, mutant: without the early return for a non-increasing alpha
isFlowLikely_NoSignTest(alphaStart, alphaEnd, valueTaoStart, valueTaoEnd, alphaThrPct, valueThrPct) ==
    \/ ~(alphaStart > 0)
    \/ Abs(alphaEnd - alphaStart) * 100 > alphaThrPct * alphaStart
    \/ /\ valueTaoStart > 0
       /\ Abs(valueTaoEnd - valueTaoStart) * 100 > valueThrPct * valueTaoStart

\* isFlowLikely, with the thresholds in percent.  Its Number.isFinite tests
\* hold at every call: the arguments come from num over numeric(36, 18)
\* columns, so each quotient with a positive divisor is finite.
isFlowLikely(alphaStart, alphaEnd, valueTaoStart, valueTaoEnd, alphaThrPct, valueThrPct) ==
    LET alphaDelta == alphaEnd - alphaStart
        valueDelta == valueTaoEnd - valueTaoStart
    IN  IF ~(alphaDelta > 0) THEN FALSE
        ELSE IF ~(alphaStart > 0) THEN TRUE
        ELSE IF Abs(alphaDelta) * 100 > alphaThrPct * alphaStart THEN TRUE
        ELSE IF valueTaoStart > 0
                /\ Abs(valueDelta) * 100 > valueThrPct * valueTaoStart
             THEN TRUE
        ELSE FALSE

\* rows.sort((a, b) => a.capturedAt - b.capturedAt) of a set of rows
RECURSIVE SortAsc(_)
SortAsc(S) ==
    IF S = {} THEN <<>>
    ELSE LET m == CHOOSE r \in S : \A q \in S : r.capturedAt <= q.capturedAt
         IN  <<m>> \o SortAsc(S \ {m})

\* .limit(800) of the performance route's snapshot query
PerfSnapLimit == 800

\* orderBy(desc(capturedAt)).limit(n): the n latest rows
LatestN(S, n) ==
    {r \in S : Cardinality({q \in S : q.capturedAt > r.capturedAt}) < n}

\* the selection, mutant: every snapshot before startMs is kept
SelectWindow_AllBefore(snaps, nowMs, days) ==
    SortAsc(LatestN({s \in snaps : s.capturedAt <= nowMs}, PerfSnapLimit))

\* the snapshots the route works on: those in [startMs, nowMs] and the last
\* one before startMs
SelectWindow(snaps, nowMs, days) ==
    LET startMs     == nowMs - days * TicksPerDay
        snapsDesc   == LatestN({s \in snaps : s.capturedAt <= nowMs}, PerfSnapLimit)
        snapsAsc    == SortAsc(snapsDesc)
        inRange     == SelectSeq(snapsAsc, LAMBDA s : s.capturedAt >= startMs)
        before      == SelectSeq(snapsAsc, LAMBDA s : s.capturedAt < startMs)
        beforeStart == IF before = <<>> THEN <<>> ELSE <<before[Len(before)]>>
    IN  beforeStart \o inRange

\* Max drawdown.  peak is None for -Infinity; maxDrawdownPct is None or the
\* pair [v, peak] standing for dd = (v / peak - 1) * 100.
\* One turn of the loop over selected, for the totalValueTao column x.
\* (The loop's !Number.isFinite(v) guard never holds: num returns a finite
\* number for every input.)
\* Mutant: the drawdown is taken against the peak before this point.
DrawdownStep_StalePeak(st, x) ==
    LET v     == num(x)
        peak1 == IF st.peak = None \/ v > st.peak[1] THEN Some(v) ELSE st.peak
        old   == IF st.peak = None THEN v ELSE st.peak[1]
        lower == \/ st.maxDrawdownPct = None
                 \/ v * st.maxDrawdownPct[1].peak < st.maxDrawdownPct[1].v * old
    IN  [peak           |-> peak1,
         maxDrawdownPct |-> IF old > 0 /\ lower
                            THEN Some([v |-> v, peak |-> old])
                            ELSE st.maxDrawdownPct]

DrawdownStep(st, x) ==
    LET v     == num(x)
        peak1 == IF st.peak = None \/ v > st.peak[1] THEN Some(v) ELSE st.peak
        lower == \/ st.maxDrawdownPct = None
                 \/ v * st.maxDrawdownPct[1].peak < st.maxDrawdownPct[1].v * peak1[1]
    IN  [peak           |-> peak1,
         maxDrawdownPct |-> IF peak1[1] > 0 /\ lower
                            THEN Some([v |-> v, peak |-> peak1[1]])
                            ELSE st.maxDrawdownPct]

RECURSIVE DrawdownPass(_, _)
DrawdownPass(values, st) ==
    IF values = <<>> THEN st.maxDrawdownPct
    ELSE DrawdownPass(Tail(values), DrawdownStep(st, Head(values)))

MaxDrawdown(values) ==
    DrawdownPass(values, [peak |-> None, maxDrawdownPct |-> None])

\* maxDrawdownPct === null ? "" : maxDrawdownPct.toFixed(4)
FormatDrawdown(dd) ==
    IF dd = None THEN None
    ELSE Some(toFixed4((dd[1].v - dd[1].peak) * 100, dd[1].peak))

----------------------------------------------------------------------------
(* Performance route: attribution *)

\* alpha balances and TAO values that stored position rows take in the model
AlphaVals == {0, 100, 105, 200}

ValueTaoVals == {0, 10, 12}

\* TAO impacts are rationals earned * valueTao / alpha; the model keeps them
\* as integers in units of 1 / ImpactScale
ImpactScale == LcmOf(AlphaVals \ {0})

\* r.hotkey ? String(r.hotkey) : null
NormHotkey(h) == IF h = None \/ h[1] = <<>> THEN None ELSE h

\* `${netuid}:${hotkey ?? ""}`
KeyOf(netuid, hotkey) ==
    NumStr(netuid) \o <<":">> \o (IF hotkey = None THEN <<>> ELSE hotkey[1])

\* one entry of bySnap: { netuid, hotkey, alpha, valueTao, priceTao }
PosState(r) ==
    LET alpha    == num(r.alphaBalance)
        valueTao == num(r.valueTao)
    IN  [netuid   |-> r.netuid,
         hotkey   |-> NormHotkey(r.hotkey),
         alpha    |-> alpha,
         valueTao |-> valueTao,
         priceTao |-> IF alpha > 0 /\ valueTao > 0
                      THEN valueTao * (ImpactScale \div alpha) ELSE 0]

RowKey(r) == KeyOf(r.netuid, NormHotkey(r.hotkey))

\* bySnap.get(sid) ?? new Map(): key -> PosState over the subnet rows of the
\* snapshot, rows with netuid 0 left out
BySnap(posRows, sid) ==
    LET rows == {r \in posRows : /\ r.snapshotId = sid
                                 /\ r.positionType = "subnet"
                                 /\ r.netuid # 0}
    IN  [k \in {RowKey(r) : r \in rows} |->
            PosState(CHOOSE r \in rows : RowKey(r) = k)]

NoAggregates ==
    [alphaNetByKey |-> EmptyMap, alphaStakingByKey |-> EmptyMap,
     taoNetByKey |-> EmptyMap, taoStakingByKey |-> EmptyMap,
     flowLikelyCountByKey |-> EmptyMap]

\* Mutant: a flow-like interval is counted but still added to staking-est
Aggregate_NoExclusion(acc, k, earned, taoImpact, flowLikely) ==
    LET net == [acc EXCEPT
                  !.alphaNetByKey     = Put(@, k, Get(@, k) + earned),
                  !.taoNetByKey       = Put(@, k, Get(@, k) + taoImpact),
                  !.alphaStakingByKey = Put(@, k, Get(@, k) + earned),
                  !.taoStakingByKey   = Put(@, k, Get(@, k) + taoImpact)]
    IN  IF flowLikely
        THEN [net EXCEPT !.flowLikelyCountByKey = Put(@, k, Get(@, k) + 1)]
        ELSE net

\* Mutant: a flow-like interval is left out of staking-est without being
\* counted
Aggregate_Uncounted(acc, k, earned, taoImpact, flowLikely) ==
    LET net == [acc EXCEPT
                  !.alphaNetByKey = Put(@, k, Get(@, k) + earned),
                  !.taoNetByKey   = Put(@, k, Get(@, k) + taoImpact)]
    IN  IF flowLikely
        THEN net
        ELSE [net EXCEPT
                !.alphaStakingByKey = Put(@, k, Get(@, k) + earned),
                !.taoStakingByKey   = Put(@, k, Get(@, k) + taoImpact)]

\* the body of the loop for one key of one interval, after earned and
\* taoImpact are known: net aggregation, flow filter, staking aggregation
Aggregate(acc, k, earned, taoImpact, flowLikely) ==
    LET net == [acc EXCEPT
                  !.alphaNetByKey = Put(@, k, Get(@, k) + earned),
                  !.taoNetByKey   = Put(@, k, Get(@, k) + taoImpact)]
    IN  IF flowLikely
        THEN [net EXCEPT !.flowLikelyCountByKey = Put(@, k, Get(@, k) + 1)]
        ELSE [net EXCEPT
                !.alphaStakingByKey = Put(@, k, Get(@, k) + earned),
                !.taoStakingByKey   = Put(@, k, Get(@, k) + taoImpact)]

\* the loop body's reads, mutant: the delta is valued at the START price
IntervalOf_StartPrice(startMap, endMap, k) ==
    LET has0       == k \in DOMAIN startMap
        has1       == k \in DOMAIN endMap
        alphaStart == IF has0 THEN startMap[k].alpha ELSE 0
        alphaEnd   == IF has1 THEN endMap[k].alpha ELSE 0
        earned     == alphaEnd - alphaStart
        startPrice == IF has0 THEN startMap[k].priceTao ELSE 0
    IN  [alphaStart |-> alphaStart,
         alphaEnd   |-> alphaEnd,
         earned     |-> earned,
         taoImpact  |-> IF startPrice > 0 THEN earned * startPrice ELSE 0,
         flowLikely |-> isFlowLikely(alphaStart, alphaEnd,
                            IF has0 THEN startMap[k].valueTao ELSE 0,
                            IF has1 THEN endMap[k].valueTao ELSE 0,
                            AlphaPctThresholdPct, ValuePctThresholdPct)]

\* the loop body's reads, mutant: a key missing from one side of the pair
\* earns nothing instead of counting as alpha 0
IntervalOf_AbsentSkipped(startMap, endMap, k) ==
    LET has0       == k \in DOMAIN startMap
        has1       == k \in DOMAIN endMap
        alphaStart == IF has0 THEN startMap[k].alpha ELSE 0
        alphaEnd   == IF has1 THEN endMap[k].alpha ELSE 0
        earned     == IF has0 /\ has1 THEN alphaEnd - alphaStart ELSE 0
        endPrice   == IF has1 THEN endMap[k].priceTao ELSE 0
    IN  [alphaStart |-> alphaStart,
         alphaEnd   |-> alphaEnd,
         earned     |-> earned,
         taoImpact  |-> IF endPrice > 0 THEN earned * endPrice ELSE 0,
         flowLikely |-> isFlowLikely(alphaStart, alphaEnd,
                            IF has0 THEN startMap[k].valueTao ELSE 0,
                            IF has1 THEN endMap[k].valueTao ELSE 0,
                            AlphaPctThresholdPct, ValuePctThresholdPct)]

\* what the loop body reads for key k between two snapshots
IntervalOf(startMap, endMap, k) ==
    LET has0       == k \in DOMAIN startMap
        has1       == k \in DOMAIN endMap
        alphaStart == IF has0 THEN startMap[k].alpha ELSE 0
        alphaEnd   == IF has1 THEN endMap[k].alpha ELSE 0
        earned     == alphaEnd - alphaStart
        endPrice   == IF has1 THEN endMap[k].priceTao ELSE 0
    IN  [alphaStart |-> alphaStart,
         alphaEnd   |-> alphaEnd,
         earned     |-> earned,
         taoImpact  |-> IF endPrice > 0 THEN earned * endPrice ELSE 0,
         flowLikely |-> isFlowLikely(alphaStart, alphaEnd,
                            IF has0 THEN startMap[k].valueTao ELSE 0,
                            IF has1 THEN endMap[k].valueTao ELSE 0,
                            AlphaPctThresholdPct, ValuePctThresholdPct)]

RECURSIVE KeysLoop(_, _, _, _)
\* for (const k of keys) { ... }
KeysLoop(keys, startMap, endMap, acc) ==
    IF keys = {} THEN acc
    ELSE LET k  == CHOOSE x \in keys : TRUE
             iv == IntervalOf(startMap, endMap, k)
             a1 == IF iv.earned = 0 THEN acc
                   ELSE Aggregate(acc, k, iv.earned, iv.taoImpact, iv.flowLikely)
         IN  KeysLoop(keys \ {k}, startMap, endMap, a1)

RECURSIVE IntervalsLoop(_, _, _, _)
\* for (let i = 0; i < selected.length - 1; i++) { ... }, i counted from 1
IntervalsLoop(selected, posRows, i, acc) ==
    IF i > Len(selected) - 1 THEN acc
    ELSE LET startMap == BySnap(posRows, selected[i].id)
             endMap   == BySnap(posRows, selected[i + 1].id)
             keys     == (DOMAIN startMap) \cup (DOMAIN endMap)
         IN  IntervalsLoop(selected, posRows, i + 1,
                           KeysLoop(keys, startMap, endMap, acc))

\* Mutant: contributors are built from the staking-est keys only
AllKeys_StakingOnly(acc) == DOMAIN acc.alphaStakingByKey

\* the keys the contributors are built from
AllKeys(acc) == (DOMAIN acc.alphaNetByKey) \cup (DOMAIN acc.alphaStakingByKey)

\* share of a total: (part / total) * 100 when the total is positive, else 0;
\* a rational n / d
SharePct(part, total) ==
    IF total > 0 THEN [n |-> part * 100, d |-> total] ELSE [n |-> 0, d |-> 1]

\* one pushed contributor; key is the map key it was built from
Contributor(acc, k, totalImpactNet, totalImpactStaking) ==
    LET parts     == Split(k, ":")
        hotkeyStr == IF Len(parts) >= 2 THEN parts[2] ELSE <<>>
    IN  [key                   |-> k,
         netuid                |-> StrNum(parts[1]),
         hotkey                |-> IF hotkeyStr # <<>> THEN Some(hotkeyStr) ELSE None,
         alphaEarnedNet        |-> Get(acc.alphaNetByKey, k),
         alphaEarnedStakingEst |-> Get(acc.alphaStakingByKey, k),
         taoImpactEstNet       |-> Get(acc.taoNetByKey, k),
         taoImpactEstStaking   |-> Get(acc.taoStakingByKey, k),
         sharePctNet           |-> SharePct(Get(acc.taoNetByKey, k), totalImpactNet),
         sharePctStaking       |-> SharePct(Get(acc.taoStakingByKey, k),
                                            totalImpactStaking),
         flowLikelyPeriods     |-> Get(acc.flowLikelyCountByKey, k)]

\* the comparator, mutant: net impact first, staking impact on ties
ContribBefore_NetFirst(a, b) ==
    \/ a.taoImpactEstNet > b.taoImpactEstNet
    \/ /\ a.taoImpactEstNet = b.taoImpactEstNet
       /\ a.taoImpactEstStaking > b.taoImpactEstStaking

\* the comparator of contributors.sort: a is placed before b
ContribBefore(a, b) ==
    \/ a.taoImpactEstStaking > b.taoImpactEstStaking
    \/ /\ a.taoImpactEstStaking = b.taoImpactEstStaking
       /\ a.taoImpactEstNet > b.taoImpactEstNet

RECURSIVE SortContributors(_)
SortContributors(S) ==
    IF S = {} THEN <<>>
    ELSE LET m == CHOOSE c \in S : \A q \in S : ~ContribBefore(q, c)
         IN  <<m>> \o SortContributors(S \ {m})

Reverse(s) == [i \in 1..Len(s) |-> s[Len(s) + 1 - i]]

\* daily.slice(-7).reverse()
DailyLast7(selected) ==
    LET daily == [j \in 1..(Len(selected) - 1) |->
                    LET prevTao == num(selected[j].totalValueTao)
                        currTao == num(selected[j + 1].totalValueTao)
                    IN  [periodEnd    |-> selected[j + 1].capturedAt,
                         deltaTao     |-> currTao - prevTao,
                         returnPctTao |-> pctFrom(prevTao, currTao)]]
        from  == Max2(1, Len(daily) - 6)
    IN  Reverse(SubSeq(daily, from, Len(daily)))

----------------------------------------------------------------------------
(* Performance route: the handler *)

\* clampDays(raw): raw is None (no parameter) or a number
clampDays(raw) ==
    IF raw = None THEN 30
    ELSE Max2(1, IF raw[1] > 365 THEN 365 ELSE raw[1])

\* the insufficient-data response, mutant: reported as a failure
NotEnough_AsFailure(days, nowMs, note) ==
    [kind |-> "perf", ok |-> FALSE, status |-> 500, error |-> None, days |-> days,
     nowMs |-> nowMs, note |-> Some(note), selected |-> <<>>,
     kpis |-> None, contributors |-> <<>>, daily |-> <<>>]

\* the response of the two insufficient-data branches
NotEnough(days, nowMs, note) ==
    [kind |-> "perf", ok |-> TRUE, status |-> 200, error |-> None, days |-> days,
     nowMs |-> nowMs, note |-> Some(note), selected |-> <<>>,
     kpis |-> None, contributors |-> <<>>, daily |-> <<>>]

\* catch (err): { ok: false, error: message }, status 500; the body has no
\* other field
PerformanceError(nowMs, raw, message) ==
    [kind |-> "perf", ok |-> FALSE, status |-> 500, error |-> Some(message),
     days |-> clampDays(raw), nowMs |-> nowMs, note |-> None, selected |-> <<>>,
     kpis |-> None, contributors |-> <<>>, daily |-> <<>>]

\* GET of the performance route over the stored rows
PerformanceGET(snaps, posRows, nowMs, raw) ==
    LET days      == clampDays(raw)
        snapsDesc == {s \in snaps : s.capturedAt <= nowMs}
        selected  == SelectWindow(snaps, nowMs, days)
    IN  IF Cardinality(snapsDesc) < 2
        THEN NotEnough(days, nowMs, "Not enough snapshots yet (need at least 2).")
        ELSE IF Len(selected) < 2
        THEN NotEnough(days, nowMs, "Not enough snapshots in selected range.")
        ELSE
        LET startTotalTao == num(selected[1].totalValueTao)
            endTotalTao   == num(selected[Len(selected)].totalValueTao)
            maxDrawdownPct ==
                MaxDrawdown([j \in 1..Len(selected) |-> selected[j].totalValueTao])
            acc == IntervalsLoop(selected, posRows, 1, NoAggregates)
            totalImpactNet     == SumOver(acc.taoNetByKey, DOMAIN acc.taoNetByKey)
            totalImpactStaking == SumOver(acc.taoStakingByKey,
                                          DOMAIN acc.taoStakingByKey)
        IN  [kind |-> "perf", ok |-> TRUE, status |-> 200, error |-> None,
             days |-> days, nowMs |-> nowMs, note |-> None,
             selected |-> [j \in 1..Len(selected) |-> selected[j].id],
             kpis |-> Some([startTotalTao  |-> startTotalTao,
                            endTotalTao    |-> endTotalTao,
                            deltaTao       |-> endTotalTao - startTotalTao,
                            returnTaoPct   |-> pctFrom(startTotalTao, endTotalTao),
                            alphaTaoImpactEstNet     |-> totalImpactNet,
                            alphaTaoImpactEstStaking |-> totalImpactStaking,
                            maxDrawdownPct |-> FormatDrawdown(maxDrawdownPct)]),
             contributors |->
                SortContributors({Contributor(acc, k, totalImpactNet,
                                              totalImpactStaking) : k \in AllKeys(acc)}),
             daily |-> DailyLast7(selected)]

----------------------------------------------------------------------------
(* Performance route: the rows it reads and the requests it gets *)

\* position identities held in the model: (netuid, hotkey)
PerfIds == {[netuid |-> 1, hotkey |-> None],
            [netuid |-> 2, hotkey |-> Some(<<"a">>)]}

\* what one identity's row can hold in one snapshot: alpha and TAO value
Holdings(id) ==
    IF id.netuid = 1
    THEN {[alpha |-> 100, valueTao |-> 10], [alpha |-> 105, valueTao |-> 10],
          [alpha |-> 105, valueTao |-> 12], [alpha |-> 200, valueTao |-> 12]}
    ELSE {[alpha |-> 100, valueTao |-> 10], [alpha |-> 200, valueTao |-> 10],
          [alpha |-> 0, valueTao |-> 0]}

\* per identity: no row, or a row with one of its holdings
PositionSets ==
    {f \in [PerfIds -> {None} \cup {Some(h) : h \in UNION {Holdings(i) : i \in PerfIds}}] :
        \A id \in PerfIds : f[id] = None \/ f[id][1] \in Holdings(id)}

TotalValueTaoVals == {None, Some(0), Some(2), Some(3)}

NoPositions == [id \in PerfIds |-> None]

\* a stored snapshot varies its total or its positions
SnapInputs ==
    {[totalValueTao |-> t, positions |-> NoPositions] : t \in TotalValueTaoVals}
    \cup {[totalValueTao |-> Some(2), positions |-> f] : f \in PositionSets}

\* the rows of position_snapshots written with snapshot sid
PositionRows(sid, positions) ==
    {[snapshotId |-> sid, positionType |-> "root", netuid |-> 0, hotkey |-> None,
      alphaBalance |-> None, valueTao |-> Some(1)]}
    \cup {[snapshotId |-> sid, positionType |-> "subnet", netuid |-> id.netuid,
           hotkey |-> id.hotkey, alphaBalance |-> Some(positions[id][1].alpha),
           valueTao |-> Some(positions[id][1].valueTao)] :
          id \in {i \in PerfIds : positions[i] # None}}

\* the daily cron has stored one more snapshot with its position rows
StoreSnapshot ==
    /\ Cardinality(portfolioSnapshots) < MaxSnaps
    /\ \E in \in SnapInputs :
         LET sid == Cardinality(portfolioSnapshots) + 1
         IN  /\ portfolioSnapshots' = portfolioSnapshots \cup
                    {[id |-> sid, capturedAt |-> sid * TicksPerDay,
                      totalValueTao |-> in.totalValueTao]}
             /\ positionSnapshots' = positionSnapshots \cup
                    PositionRows(sid, in.positions)
    /\ perfResp' = NoResp
    /\ UNCHANGED <<subnetMetricSnapshots, cronVars, sigResp, histResp, call>>

LatestCapturedAt ==
    IF portfolioSnapshots = {} THEN 0
    ELSE (CHOOSE s \in portfolioSnapshots :
            \A q \in portfolioSnapshots : q.capturedAt <= s.capturedAt).capturedAt

\* the requests to the performance route: the days parameter, the days
\* passed since the last snapshot, and what requireEnv or a query threw
PerfRequests ==
    {[raw |-> raw, late |-> late, threw |-> None] :
        raw \in {Some(0), Some(1), Some(2)}, late \in {0, 1}}
    \cup {[raw |-> Some(1), late |-> 3, threw |-> None],
          [raw |-> Some(1), late |-> 0, threw |-> Some("db")]}

\* a request to the performance route
GetPerformance ==
    /\ perfResp = NoResp
    /\ \E rq \in PerfRequests :
         LET nowMs == LatestCapturedAt + rq.late * TicksPerDay
         IN  perfResp' = IF rq.threw # None
                         THEN PerformanceError(nowMs, rq.raw, rq.threw[1])
                         ELSE PerformanceGET(portfolioSnapshots, positionSnapshots,
                                             nowMs, rq.raw)
    /\ UNCHANGED <<dbVars, subnetMetricSnapshots, cronVars, sigResp, histResp, call>>

PerfInit ==
    /\ portfolioSnapshots = {}
    /\ positionSnapshots = {}
    /\ subnetMetricSnapshots = {}
    /\ cronRuns = {}
    /\ cron = <<>>
    /\ clock = 0
    /\ perfResp = NoResp
    /\ sigResp = NoResp
    /\ histResp = NoResp
    /\ call = NoResp

PerfNext == StoreSnapshot \/ GetPerformance

SpecPerf == PerfInit /\ [][PerfNext]_vars

----------------------------------------------------------------------------
(* Performance route: properties *)

HasKpis == perfResp.kind = "perf" /\ perfResp.kpis # None

\* the stored snapshot with a given id
SnapById(sid) == CHOOSE s \in portfolioSnapshots : s.id = sid

\* the totalValueTao column of the selected snapshots of the response
SelectedTotals ==
    [j \in 1..Len(perfResp.selected) |-> SnapById(perfResp.selected[j]).totalValueTao]

\* the intervals of the response that are flagged as flow for key k
FlaggedIntervals(k) ==
    {j \in 1..(Len(perfResp.selected) - 1) :
        IntervalOf(BySnap(positionSnapshots, perfResp.selected[j]),
                   BySnap(positionSnapshots, perfResp.selected[j + 1]), k).flowLikely}

FlaggedInterval(k, j) ==
    IntervalOf(BySnap(positionSnapshots, perfResp.selected[j]),
               BySnap(positionSnapshots, perfResp.selected[j + 1]), k)

Contributors == {perfResp.contributors[i] : i \in 1..Len(perfResp.contributors)}

\* C1: net = staking + excluded.  For every contributor of a response,
\* alphaEarnedNet equals alphaEarnedStakingEst plus the earned deltas of
\* exactly the intervals isFlowLikely flagged for its key, and
\* taoImpactEstNet equals taoImpactEstStaking plus their TAO impacts.
C1_NetIsStakingPlusFlow ==
    HasKpis =>
        \A c \in Contributors :
            LET F == FlaggedIntervals(c.key)
            IN  /\ c.alphaEarnedNet = c.alphaEarnedStakingEst
                      + SumOver([j \in F |-> FlaggedInterval(c.key, j).earned], F)
                /\ c.taoImpactEstNet = c.taoImpactEstStaking
                      + SumOver([j \in F |-> FlaggedInterval(c.key, j).taoImpact], F)

\* a contributor with an excluded interval and a counted one
C1_Witness ==
    /\ HasKpis
    /\ \E c \in Contributors :
         /\ c.flowLikelyPeriods >= 1
         /\ c.alphaEarnedStakingEst # 0
         /\ c.alphaEarnedNet # c.alphaEarnedStakingEst

\* the series with null counted as 0 never goes down
NonDecreasing(values) ==
    \A j \in 1..(Len(values) - 1) : num(values[j]) <= num(values[j + 1])

\* C5 as stated: maxDrawdownPct is a number <= 0, and 0 for every
\* non-decreasing series, the all-zero and all-missing ones included.
C5_AlwaysNumeric ==
    HasKpis =>
        /\ perfResp.kpis[1].maxDrawdownPct # None
        /\ perfResp.kpis[1].maxDrawdownPct[1] <= 0
        /\ NonDecreasing(SelectedTotals) => perfResp.kpis[1].maxDrawdownPct[1] = 0

\* C5 amended: maxDrawdownPct is the "" marker exactly when no selected
\* snapshot has a positive totalValueTao; otherwise it is a number <= 0, and
\* it is 0 whenever the series (null counted as 0) is non-decreasing.
C5_DrawdownNonPositive ==
    HasKpis =>
        LET md       == perfResp.kpis[1].maxDrawdownPct
            positive == \E j \in 1..Len(SelectedTotals) : num(SelectedTotals[j]) > 0
        IN  /\ (md = None) <=> ~positive
            /\ md # None => md[1] <= 0
            /\ (positive /\ NonDecreasing(SelectedTotals)) => md = Some(0)

\* a rising series with drawdown 0
C5_Witness ==
    /\ HasKpis
    /\ perfResp.kpis[1].maxDrawdownPct = Some(0)
    /\ \E j \in 1..(Len(SelectedTotals) - 1) :
         num(SelectedTotals[j]) < num(SelectedTotals[j + 1])

\* C6: a snapshot whose totalValueTao is null is skipped by the drawdown
\* pass: the result is the max drawdown of the series without those snapshots.
C6_NullSkipped ==
    HasKpis =>
        perfResp.kpis[1].maxDrawdownPct =
            FormatDrawdown(MaxDrawdown(SelectSeq(SelectedTotals, LAMBDA v : v # None)))

\* C10: over the contributors of a response, sharePctNet sums to 100 when
\* the total net impact is positive and every sharePctNet is 0 otherwise;
\* the same for sharePctStaking against the total staking-est impact.
C10_SharesSumTo100 ==
    HasKpis =>
        LET totalNet   == perfResp.kpis[1].alphaTaoImpactEstNet
            totalStake == perfResp.kpis[1].alphaTaoImpactEstStaking
            C          == Contributors
        IN  /\ IF totalNet > 0
               THEN /\ \A c \in C : c.sharePctNet.d = totalNet
                    /\ SumOver([c \in C |-> c.sharePctNet.n], C) = 100 * totalNet
               ELSE \A c \in C : c.sharePctNet.n = 0
            /\ IF totalStake > 0
               THEN /\ \A c \in C : c.sharePctStaking.d = totalStake
                    /\ SumOver([c \in C |-> c.sharePctStaking.n], C) = 100 * totalStake
               ELSE \A c \in C : c.sharePctStaking.n = 0

\* two contributors sharing a positive net total while a third staking view
\* has a positive total too, one of them excluded from it
C10_Witness ==
    /\ HasKpis
    /\ perfResp.kpis[1].alphaTaoImpactEstNet > 0
    /\ perfResp.kpis[1].alphaTaoImpactEstStaking > 0
    /\ \E c, e \in Contributors :
         /\ c.key # e.key
         /\ c.sharePctNet.n > 0 /\ e.sharePctNet.n > 0
         /\ c.sharePctStaking.n = 0 /\ e.sharePctStaking.n > 0

----------------------------------------------------------------------------
(* Cron snapshot handler *)

Invocations == 1..MaxInvocations

\* utcDayKey(d): the UTC day a time falls in
utcDayKey(t) == t \div TicksPerDay

\* snapshotExistsForUtcDay: some stored snapshot falls in the day of capturedAt
snapshotExistsForUtcDay(capturedAt) ==
    \E s \in portfolioSnapshots : utcDayKey(s.capturedAt) = utcDayKey(capturedAt)

\* the locals of takeSnapshot before the handler is called
IdleInvocation ==
    [pc |-> "idle", capturedAt |-> 0, force |-> FALSE, ok |-> FALSE,
     message |-> "", snapshotsInserted |-> 0, positionsInserted |-> 0,
     portfolioJson |-> None, snapshotId |-> 0, heldNetuids |-> {}, status |-> 0]

\* /api/portfolio payloads the handler may be given
Payloads ==
    {[root    |-> Some([valueTao |-> 5, valueUsd |-> 50]),
      subnets |-> <<[netuid |-> Some(1), hotkey |-> Some(<<"a">>),
                     alphaBalance |-> 100, valueTao |-> 10, valueUsd |-> 100]>>,
      totalValueTao |-> Some(15), totalValueUsd |-> Some(150)],
     [root    |-> None,
      subnets |-> <<[netuid |-> Some(0), hotkey |-> None,
                     alphaBalance |-> 0, valueTao |-> 7, valueUsd |-> 70],
                    [netuid |-> Some(1), hotkey |-> None,
                     alphaBalance |-> 105, valueTao |-> 10, valueUsd |-> 100]>>,
      totalValueTao |-> Some(17), totalValueUsd |-> None],
     [root    |-> Some([valueTao |-> 3, valueUsd |-> 30]),
      subnets |-> <<[netuid |-> Some(0), hotkey |-> Some(<<"z">>),
                     alphaBalance |-> 0, valueTao |-> 7, valueUsd |-> 70],
                    [netuid |-> None, hotkey |-> Some(<<"n">>),
                     alphaBalance |-> 1, valueTao |-> 1, valueUsd |-> 10]>>,
      totalValueTao |-> Some(10), totalValueUsd |-> Some(100)]}

\* what taostats returned for one netuid (None: the fetch failed or the field
\* was absent)
MetricFetches ==
    {[flow24h |-> None, emissionPct |-> None, liquidity |-> None],
     [flow24h |-> Some(1), emissionPct |-> None, liquidity |-> None],
     [flow24h |-> Some(2), emissionPct |-> Some(1), liquidity |-> Some(9)]}

\* positionRows, mutant: an upstream entry with netuid 0 is also written as a
\* subnet row
BuildPositionRows_KeepZero(sid, json) ==
    LET zeros == SelectSeq(json.subnets, LAMBDA x : x.netuid = Some(0))
        rootFromSubnets == IF zeros = <<>> THEN None ELSE Some(Head(zeros))
        rootValueTao == IF json.root # None THEN json.root[1].valueTao
                        ELSE IF rootFromSubnets # None THEN rootFromSubnets[1].valueTao
                        ELSE 0
        rootValueUsd == IF json.root # None THEN json.root[1].valueUsd
                        ELSE IF rootFromSubnets # None THEN rootFromSubnets[1].valueUsd
                        ELSE 0
        kept == SelectSeq(json.subnets, LAMBDA x : x.netuid # None)
    IN  <<[snapshotId |-> sid, positionType |-> "root", netuid |-> 0,
           hotkey |-> None, alphaBalance |-> None,
           valueTao |-> Some(rootValueTao), valueUsd |-> Some(rootValueUsd)]>>
        \o [i \in 1..Len(kept) |->
              [snapshotId |-> sid, positionType |-> "subnet",
               netuid |-> kept[i].netuid[1],
               hotkey |-> NormHotkey(kept[i].hotkey),
               alphaBalance |-> Some(kept[i].alphaBalance),
               valueTao |-> Some(kept[i].valueTao),
               valueUsd |-> Some(kept[i].valueUsd)]]

\* the positionRows built from the payload for snapshot sid, in push order
BuildPositionRows(sid, json) ==
    LET zeros == SelectSeq(json.subnets, LAMBDA x : x.netuid = Some(0))
        rootFromSubnets == IF zeros = <<>> THEN None ELSE Some(Head(zeros))
        rootValueTao == IF json.root # None THEN json.root[1].valueTao
                        ELSE IF rootFromSubnets # None THEN rootFromSubnets[1].valueTao
                        ELSE 0
        rootValueUsd == IF json.root # None THEN json.root[1].valueUsd
                        ELSE IF rootFromSubnets # None THEN rootFromSubnets[1].valueUsd
                        ELSE 0
        kept == SelectSeq(json.subnets,
                          LAMBDA x : x.netuid # None /\ x.netuid # Some(0))
    IN  <<[snapshotId |-> sid, positionType |-> "root", netuid |-> 0,
           hotkey |-> None, alphaBalance |-> None,
           valueTao |-> Some(rootValueTao), valueUsd |-> Some(rootValueUsd)]>>
        \o [i \in 1..Len(kept) |->
              [snapshotId |-> sid, positionType |-> "subnet",
               netuid |-> kept[i].netuid[1],
               hotkey |-> NormHotkey(kept[i].hotkey),
               alphaBalance |-> Some(kept[i].alphaBalance),
               valueTao |-> Some(kept[i].valueTao),
               valueUsd |-> Some(kept[i].valueUsd)]]

\* the unique index on (snapshot_id, position_type, netuid, hotkey) rejects
\* the insert; rows with a null hotkey never conflict
ViolatesSnapshotUniq(rows) ==
    \E i, j \in 1..Len(rows) :
        /\ i < j
        /\ rows[i].hotkey # None
        /\ rows[i].positionType = rows[j].positionType
        /\ rows[i].netuid = rows[j].netuid
        /\ rows[i].hotkey = rows[j].hotkey

\* the handler is called; an unauthorized request ends with 401 and runs
\* nothing; force stands for NODE_ENV = development with ?force=1
CronRequest(p) ==
    /\ cron[p].pc = "idle"
    /\ \E authorized \in BOOLEAN, force \in BOOLEAN :
         cron' = [cron EXCEPT ![p] =
                    IF ~authorized
                    THEN [@ EXCEPT !.pc = "done", !.status = 401]
                    ELSE [@ EXCEPT !.pc = "check", !.capturedAt = clock,
                                   !.force = force]]
    /\ UNCHANGED <<dbVars, subnetMetricSnapshots, cronRuns, clock,
                   perfResp, sigResp, histResp, call>>

\* exists = await snapshotExistsForUtcDay(...); if (exists && !force) skip
CronCheckExists(p) ==
    /\ cron[p].pc = "check"
    /\ cron' = [cron EXCEPT ![p] =
                  IF snapshotExistsForUtcDay(@.capturedAt) /\ ~@.force
                  THEN [@ EXCEPT !.pc = "log", !.ok = TRUE, !.status = 200,
                           !.message = "Skipped: snapshot already exists for UTC day"]
                  ELSE [@ EXCEPT !.pc = "fetch"]]
    /\ UNCHANGED <<dbVars, subnetMetricSnapshots, cronRuns, clock,
                   perfResp, sigResp, histResp, call>>

\* portfolioJson = await fetchJson(`${baseUrl}/api/portfolio`); a failed
\* fetch or a payload that is not ok throws
CronFetchPortfolio(p) ==
    /\ cron[p].pc = "fetch"
    /\ \E fetched \in {None} \cup {Some(j) : j \in Payloads} :
         cron' = [cron EXCEPT ![p] =
                    IF fetched = None
                    THEN [@ EXCEPT !.pc = "log", !.status = 502,
                                   !.message = "FAILED"]
                    ELSE [@ EXCEPT !.pc = "insertSnapshot",
                                   !.portfolioJson = fetched]]
    /\ UNCHANGED <<dbVars, subnetMetricSnapshots, cronRuns, clock,
                   perfResp, sigResp, histResp, call>>

\* db.insert(portfolioSnapshots).values(...).returning(id); dbOk is whether
\* the statement succeeds
CronInsertSnapshot(p) ==
    /\ cron[p].pc = "insertSnapshot"
    /\ \E dbOk \in BOOLEAN :
         IF dbOk
         THEN LET sid == Cardinality(portfolioSnapshots) + 1
              IN  /\ portfolioSnapshots' = portfolioSnapshots \cup
                        {[id |-> sid, capturedAt |-> cron[p].capturedAt,
                          totalValueTao |-> cron[p].portfolioJson[1].totalValueTao,
                          totalValueUsd |-> cron[p].portfolioJson[1].totalValueUsd]}
                  /\ cron' = [cron EXCEPT ![p].pc = "insertPositions",
                                          ![p].snapshotId = sid,
                                          ![p].snapshotsInserted = 1]
         ELSE /\ cron' = [cron EXCEPT ![p].pc = "log", ![p].status = 502,
                                      ![p].message = "FAILED"]
              /\ UNCHANGED portfolioSnapshots
    /\ UNCHANGED <<positionSnapshots, subnetMetricSnapshots, cronRuns, clock,
                   perfResp, sigResp, histResp, call>>

\* db.insert(positionSnapshots).values(positionRows): one statement
CronInsertPositions(p) ==
    /\ cron[p].pc = "insertPositions"
    /\ LET rows == BuildPositionRows(cron[p].snapshotId, cron[p].portfolioJson[1])
       IN  \E dbOk \in BOOLEAN :
             IF dbOk /\ ~ViolatesSnapshotUniq(rows)
             THEN /\ positionSnapshots' = positionSnapshots \cup
                        {rows[i] @@ [rowNo |-> i] :
                            i \in 1..Len(rows)}
                  /\ cron' = [cron EXCEPT
                        ![p].pc = "metrics",
                        ![p].positionsInserted = Len(rows),
                        ![p].heldNetuids =
                            {rows[i].netuid : i \in {j \in 1..Len(rows) :
                                                rows[j].positionType = "subnet"}}]
             ELSE /\ cron' = [cron EXCEPT ![p].pc = "log", ![p].status = 502,
                                          ![p].message = "FAILED"]
                  /\ UNCHANGED positionSnapshots
    /\ UNCHANGED <<portfolioSnapshots, subnetMetricSnapshots, cronRuns, clock,
                   perfResp, sigResp, histResp, call>>

\* the upsert of ingestSubnetMetrics for one netuid: insert, or on a conflict
\* on (day, netuid) set every column to what was fetched now
UpsertMetric(table, day, netuid, capturedAt, fetched) ==
    {r \in table : ~(r.day = day /\ r.netuid = netuid)}
    \cup {[day |-> day, netuid |-> netuid, capturedAt |-> capturedAt,
           flow24h |-> fetched.flow24h, emissionPct |-> fetched.emissionPct,
           liquidity |-> fetched.liquidity]}

\* hasAny: some useful field was fetched
hasAny(fetched) ==
    fetched.flow24h # None \/ fetched.emissionPct # None \/ fetched.liquidity # None

RECURSIVE IngestLoop(_, _, _, _, _)
\* for (const netuid of netuids) { fetch; if (hasAny) upsert }
IngestLoop(table, netuids, day, capturedAt, fetches) ==
    IF netuids = {} THEN table
    ELSE LET n  == CHOOSE x \in netuids : \A y \in netuids : x <= y
             t1 == IF hasAny(fetches[n])
                   THEN UpsertMetric(table, day, n, capturedAt, fetches[n])
                   ELSE table
         IN  IngestLoop(t1, netuids \ {n}, day, capturedAt, fetches)

\* ingestSubnetMetrics (fail-soft), then ok = true
CronIngestMetrics(p) ==
    /\ cron[p].pc = "metrics"
    /\ \E fetches \in [cron[p].heldNetuids -> MetricFetches] :
         subnetMetricSnapshots' =
             IngestLoop(subnetMetricSnapshots, cron[p].heldNetuids,
                        utcDayKey(cron[p].capturedAt), cron[p].capturedAt, fetches)
    /\ cron' = [cron EXCEPT ![p].pc = "log", ![p].ok = TRUE, ![p].status = 200,
                            ![p].message = "OK"]
    /\ UNCHANGED <<dbVars, cronRuns, clock, perfResp, sigResp, histResp, call>>

\* finally: best-effort insert into cron_runs (logged: the insert worked)
CronLog(p) ==
    /\ cron[p].pc = "log"
    /\ \E logged \in BOOLEAN :
         cronRuns' = IF logged
                     THEN cronRuns \cup
                          {[run |-> p, job |-> "snapshot", ranAt |-> cron[p].capturedAt,
                            ok |-> cron[p].ok, message |-> cron[p].message,
                            snapshotsInserted |-> cron[p].snapshotsInserted,
                            positionsInserted |-> cron[p].positionsInserted]}
                     ELSE cronRuns
    /\ cron' = [cron EXCEPT ![p].pc = "done", ![p].portfolioJson = None]
    /\ UNCHANGED <<dbVars, subnetMetricSnapshots, clock, perfResp, sigResp, histResp, call>>

\* time passes
Tick ==
    /\ clock < MaxClock
    /\ clock' = clock + 1
    /\ UNCHANGED <<dbVars, subnetMetricSnapshots, cronRuns, cron,
                   perfResp, sigResp, histResp, call>>

CronInit ==
    /\ portfolioSnapshots = {}
    /\ positionSnapshots = {}
    /\ subnetMetricSnapshots = {}
    /\ cronRuns = {}
    /\ cron = [p \in Invocations |-> IdleInvocation]
    /\ clock = 0
    /\ perfResp = NoResp
    /\ sigResp = NoResp
    /\ histResp = NoResp
    /\ call = NoResp

CronNext ==
    \/ Tick
    \/ \E p \in Invocations :
         \/ CronRequest(p)
         \/ CronCheckExists(p)
         \/ CronFetchPortfolio(p)
         \/ CronInsertSnapshot(p)
         \/ CronInsertPositions(p)
         \/ CronIngestMetrics(p)
         \/ CronLog(p)

SpecCron == CronInit /\ [][CronNext]_vars

----------------------------------------------------------------------------
(* Cron snapshot handler: properties *)

\* C2: with the force override off, there is at most one portfolio snapshot
\* per UTC day (of the one address), also when invocations overlap.
C2_OneSnapshotPerDay ==
    (\A p \in Invocations : ~cron[p].force) =>
        \A s, t \in portfolioSnapshots :
            utcDayKey(s.capturedAt) = utcDayKey(t.capturedAt) => s.id = t.id

----------------------------------------------------------------------------
(* Signals route: helpers *)
(* Flows are in units of 1e12 (the unit of the absolute thresholds),         *)
(* emission shares in units of 0.01 percentage point; comparisons against    *)
(* the thresholds are made exactly, on integers.                             *)

\* a z-score needs this many history values
MinBaseline == 14

\* getMetricHistory(netuid, day, 30)
HistoryLimit == 30

\* the streak query reads this many rows
StreakLimit == 10

\* toNum(x): null stays null; the stored numeric columns hold finite decimals
toNum(x) == IF x = None THEN None ELSE Some(x[1])

RECURSIVE SumSeq(_)
\* xs.reduce((a, b) => a + b, 0)
SumSeq(xs) == IF xs = <<>> THEN 0 ELSE Head(xs) + SumSeq(Tail(xs))

\* meanStd(values): null for fewer than 2 values; the mean is sum / n and the
\* population variance is (n * sumSq - sum^2) / n^2
meanStd(values) ==
    IF Len(values) < 2 THEN None
    ELSE Some([n     |-> Len(values),
               sum   |-> SumSeq(values),
               sumSq |-> SumSeq([i \in 1..Len(values) |-> values[i] * values[i]])])

\* z = (x - ms.mean) / ms.std, kept as dev / sqrt(var) with
\* dev = n * x - sum and var = n * sumSq - sum^2
zScore(x, ms) ==
    [dev |-> ms.n * x - ms.sum, var |-> ms.n * ms.sumSq - ms.sum * ms.sum]

\* Math.abs(z) >= k; a zero deviation of the history makes std the clamp
\* 1e-9 (clampEps), under which every non-zero integer deviation passes
zAbsAtLeast(z, k) ==
    IF z.var = 0 THEN z.dev # 0 ELSE z.dev * z.dev >= k * k * z.var

\* z <= -k
zAtMost(z, k) == z.dev < 0 /\ zAbsAtLeast(z, k)

\* a quotient num / den with den > 0, compared with c / 100
RatioAtLeast(r, c) == r.num * 100 >= c * r.den

RatioAtMost(r, c) == r.num * 100 <= c * r.den

RatioAbs(r) == [num |-> Abs(r.num), den |-> r.den]

\* utcDayKey(d): the UTC day of a timestamp
sigDayKey(capturedAt) == capturedAt \div TicksPerDay

\* addDaysUtc(dayKey, deltaDays)
addDaysUtc(dayKey, deltaDays) == dayKey + deltaDays

\* mkId: `${day}:${netuid ?? "portfolio"}:${type}`
mkId(day, netuid, type) ==
    NumStr(day) \o <<":">> \o NumStr(netuid) \o <<":">> \o <<type>>

\* sevRank(s)
sevRank(s) == IF s = "CRITICAL" THEN 3 ELSE IF s = "WARN" THEN 2 ELSE 1

\* if (c) severity = "CRITICAL"; else if (w) "WARN"; else if (i) "INFO"
Bands(c, w, i) ==
    IF c THEN Some("CRITICAL") ELSE IF w THEN Some("WARN")
    ELSE IF i THEN Some("INFO") ELSE None

RECURSIVE SortByDayDesc(_)
\* orderBy(desc(subnetMetricSnapshots.day))
SortByDayDesc(S) ==
    IF S = {} THEN <<>>
    ELSE LET m == CHOOSE r \in S : \A q \in S : r.day >= q.day
         IN  <<m>> \o SortByDayDesc(S \ {m})

\* .limit(n)
Limit(rows, n) == SubSeq(rows, 1, IF Len(rows) < n THEN Len(rows) ELSE n)

\* getMetricRowByDay(netuid, dayKey)
getMetricRowByDay(netuid, dayKey) ==
    LET rows == {r \in subnetMetricSnapshots : r.day = dayKey /\ r.netuid = netuid}
    IN  IF rows = {} THEN None ELSE Some(CHOOSE r \in rows : TRUE)

\* getMetricHistory(netuid, beforeDayKey, limitDays)
getMetricHistory(netuid, beforeDayKey, limitDays) ==
    Limit(SortByDayDesc({r \in subnetMetricSnapshots :
                            r.netuid = netuid /\ r.day < beforeDayKey}),
          limitDays)

\* hist30.map((r) => toNum(r[field])).filter((v) => v != null)
HistValues(hist, field) ==
    LET kept == SelectSeq(hist, LAMBDA r : toNum(r[field]) # None)
    IN  [i \in 1..Len(kept) |-> toNum(kept[i][field])[1]]

\* the signal pushed for (day, netuid, type)
Signal(day, netuid, severity, type, why, metrics) ==
    [id |-> mkId(day, netuid, type), day |-> day, netuid |-> netuid,
     severity |-> severity, type |-> type, why |-> why, metrics |-> metrics]

\* the entries pushed to metaMissing
MissingMetricRow(day, netuid) == <<"subnet_metric_snapshots missing", day, netuid>>

MissingFlow(day, netuid) == <<"flow_24h missing", day, netuid>>

MissingLiquidity(day, netuid) == <<"liquidity missing", day, netuid>>

MissingPortfolioTotal == <<"portfolio totalValueUsd (for concentration risk)">>

MissingSnapshots == <<"portfolio_snapshots (none found)">>

\* what one block of the loop body contributes
Block(sigs, miss) == [signals |-> sigs, missing |-> miss]

----------------------------------------------------------------------------
(* Signals route: the six signal types *)

\* the z tier of FLOW_SPIKE
FlowZSeverity(z) == Bands(zAbsAtLeast(z, 4), zAbsAtLeast(z, 3), zAbsAtLeast(z, 2))

\* the day-over-day tier of FLOW_SPIKE: pct = delta1 / max(|yFlow|, 1), where
\* the 1 is 1e-12 of a flow unit, so that with yFlow = 0 every non-zero
\* delta passes every band
FlowPctSeverity(delta1, yFlow) ==
    IF yFlow = 0 THEN Bands(delta1 # 0, delta1 # 0, delta1 # 0)
    ELSE Bands(Abs(delta1) >= 4 * Abs(yFlow), Abs(delta1) >= 2 * Abs(yFlow),
               Abs(delta1) >= Abs(yFlow))

\* the absolute tier of FLOW_SPIKE: 1e13 / 5e12 / 2e12
FlowAbsSeverity(flowToday) ==
    Bands(Abs(flowToday) >= 10, Abs(flowToday) >= 5, Abs(flowToday) >= 2)

\* A1: FLOW_SPIKE
FlowSpike(day, netuid, flowToday, flowHist, yesterday) ==
    IF flowToday = None THEN Block(<<>>, <<MissingFlow(day, netuid)>>)
    ELSE
    LET ms     == meanStd(flowHist)
        z      == IF ms # None /\ Len(flowHist) >= MinBaseline
                  THEN Some(zScore(flowToday[1], ms[1])) ELSE None
        yFlow  == IF yesterday # None THEN toNum(yesterday[1].flow24h) ELSE None
        delta1 == IF yFlow # None THEN Some(flowToday[1] - yFlow[1]) ELSE None
        tiered == IF z # None THEN FlowZSeverity(z[1])
                  ELSE IF yFlow # None THEN FlowPctSeverity(delta1[1], yFlow[1])
                  ELSE None
        severity == IF tiered = None THEN FlowAbsSeverity(flowToday[1]) ELSE tiered
    IN  IF severity = None THEN Block(<<>>, <<>>)
        ELSE Block(<<Signal(day, netuid, severity[1], "FLOW_SPIKE",
                            IF z # None THEN "z"
                            ELSE IF yFlow # None THEN "yesterday" ELSE "absolute",
                            [flow24h |-> flowToday[1], prevFlow24h |-> yFlow,
                             delta1 |-> delta1, z30 |-> z,
                             baselineCount |-> Len(flowHist)])>>, <<>>)

RECURSIVE StreakOf(_)
\* for (const r of histStreak) { if (f != null && f < 0) streak++; else break }
StreakOf(rows) ==
    IF rows = <<>> THEN 0
    ELSE LET f == toNum(Head(rows).flow24h)
         IN  IF f # None /\ f[1] < 0 THEN 1 + StreakOf(Tail(rows)) ELSE 0

\* A3: NEGATIVE_FLOW_STREAK
NegativeFlowStreak(day, netuid, flowToday) ==
    IF flowToday = None THEN Block(<<>>, <<>>)
    ELSE
    LET histStreak == Limit(SortByDayDesc({r \in subnetMetricSnapshots :
                                r.netuid = netuid /\ r.day <= day}), StreakLimit)
        streak   == StreakOf(histStreak)
        severity == IF streak >= 7 THEN Some("CRITICAL")
                    ELSE IF streak >= 3 THEN Some("WARN") ELSE None
    IN  IF severity = None THEN Block(<<>>, <<>>)
        ELSE Block(<<Signal(day, netuid, severity[1], "NEGATIVE_FLOW_STREAK", "streak",
                            [streakDays |-> streak, flow24h |-> flowToday[1]])>>, <<>>)

\* B1, mutant: the z tier is consulted before the day-over-day tier
EmissionShock_ZFirst(day, netuid, emisToday, emisHist, yesterday) ==
    IF emisToday = None THEN Block(<<>>, <<>>)
    ELSE
    LET ms      == meanStd(emisHist)
        z       == IF ms # None /\ Len(emisHist) >= MinBaseline
                   THEN Some(zScore(emisToday[1], ms[1])) ELSE None
        yEmis   == IF yesterday # None THEN toNum(yesterday[1].emissionPct) ELSE None
        deltaPp == IF yEmis # None THEN Some(emisToday[1] - yEmis[1]) ELSE None
        severity ==
            IF z # None
            THEN Bands(zAbsAtLeast(z[1], 4), zAbsAtLeast(z[1], 3), zAbsAtLeast(z[1], 2))
            ELSE IF deltaPp # None
            THEN Bands(Abs(deltaPp[1]) >= 150, Abs(deltaPp[1]) >= 75,
                       Abs(deltaPp[1]) >= 25)
            ELSE None
    IN  IF severity = None THEN Block(<<>>, <<>>)
        ELSE Block(<<Signal(day, netuid, severity[1], "EMISSION_SHOCK",
                            IF deltaPp # None THEN "yesterday" ELSE "z",
                            [emissionPct |-> emisToday[1], prevEmissionPct |-> yEmis,
                             deltaPp |-> deltaPp, z30 |-> z,
                             baselineCount |-> Len(emisHist)])>>, <<>>)

\* B1: EMISSION_SHOCK
EmissionShock(day, netuid, emisToday, emisHist, yesterday) ==
    IF emisToday = None THEN Block(<<>>, <<>>)
    ELSE
    LET ms      == meanStd(emisHist)
        z       == IF ms # None /\ Len(emisHist) >= MinBaseline
                   THEN Some(zScore(emisToday[1], ms[1])) ELSE None
        yEmis   == IF yesterday # None THEN toNum(yesterday[1].emissionPct) ELSE None
        deltaPp == IF yEmis # None THEN Some(emisToday[1] - yEmis[1]) ELSE None
        severity ==
            IF deltaPp # None
            THEN Bands(Abs(deltaPp[1]) >= 150, Abs(deltaPp[1]) >= 75,
                       Abs(deltaPp[1]) >= 25)
            ELSE IF z # None
            THEN Bands(zAbsAtLeast(z[1], 4), zAbsAtLeast(z[1], 3), zAbsAtLeast(z[1], 2))
            ELSE None
    IN  IF severity = None THEN Block(<<>>, <<>>)
        ELSE Block(<<Signal(day, netuid, severity[1], "EMISSION_SHOCK",
                            IF deltaPp # None THEN "yesterday" ELSE "z",
                            [emissionPct |-> emisToday[1], prevEmissionPct |-> yEmis,
                             deltaPp |-> deltaPp, z30 |-> z,
                             baselineCount |-> Len(emisHist)])>>, <<>>)

\* C1, mutant: a rise of the liquidity is banded like a drop
LiquidityDrain_AnyMove(day, netuid, liqToday, liqHist, yesterday) ==
    IF liqToday = None THEN Block(<<>>, <<MissingLiquidity(day, netuid)>>)
    ELSE
    LET ms   == meanStd(liqHist)
        z    == IF ms # None /\ Len(liqHist) >= MinBaseline
                THEN Some(zScore(liqToday[1], ms[1])) ELSE None
        yLiq == IF yesterday # None THEN toNum(yesterday[1].liquidity) ELSE None
        pct  == IF yLiq # None /\ yLiq[1] > 0
                THEN Some([num |-> liqToday[1] - yLiq[1], den |-> yLiq[1]]) ELSE None
        severity ==
            IF pct # None
            THEN Bands(RatioAtLeast(RatioAbs(pct[1]), 40),
                       RatioAtLeast(RatioAbs(pct[1]), 25),
                       RatioAtLeast(RatioAbs(pct[1]), 10))
            ELSE IF z # None
            THEN Bands(zAbsAtLeast(z[1], 4), zAbsAtLeast(z[1], 3), zAbsAtLeast(z[1], 2))
            ELSE None
    IN  IF severity = None THEN Block(<<>>, <<>>)
        ELSE Block(<<Signal(day, netuid, severity[1], "LIQUIDITY_DRAIN",
                            IF pct # None THEN "yesterday" ELSE "z",
                            [liquidity |-> liqToday[1], prevLiquidity |-> yLiq,
                             pctChange |-> pct, z30 |-> z,
                             baselineCount |-> Len(liqHist)])>>, <<>>)

\* C1: LIQUIDITY_DRAIN
LiquidityDrain(day, netuid, liqToday, liqHist, yesterday) ==
    IF liqToday = None THEN Block(<<>>, <<MissingLiquidity(day, netuid)>>)
    ELSE
    LET ms   == meanStd(liqHist)
        z    == IF ms # None /\ Len(liqHist) >= MinBaseline
                THEN Some(zScore(liqToday[1], ms[1])) ELSE None
        yLiq == IF yesterday # None THEN toNum(yesterday[1].liquidity) ELSE None
        pct  == IF yLiq # None /\ yLiq[1] > 0
                THEN Some([num |-> liqToday[1] - yLiq[1], den |-> yLiq[1]]) ELSE None
        severity ==
            IF pct # None
            THEN Bands(RatioAtMost(pct[1], -40), RatioAtMost(pct[1], -25),
                       RatioAtMost(pct[1], -10))
            ELSE IF z # None
            THEN Bands(zAtMost(z[1], 4), zAtMost(z[1], 3), zAtMost(z[1], 2))
            ELSE None
    IN  IF severity = None THEN Block(<<>>, <<>>)
        ELSE Block(<<Signal(day, netuid, severity[1], "LIQUIDITY_DRAIN",
                            IF pct # None THEN "yesterday" ELSE "z",
                            [liquidity |-> liqToday[1], prevLiquidity |-> yLiq,
                             pctChange |-> pct, z30 |-> z,
                             baselineCount |-> Len(liqHist)])>>, <<>>)

\* D1: POSITION_VALUE_SHOCK
PositionValueShock(day, netuid, todayValueUsd, prevValueUsd) ==
    IF todayValueUsd # None /\ prevValueUsd # None /\ prevValueUsd[1] > 0
    THEN LET pct == [num |-> todayValueUsd[1] - prevValueUsd[1], den |-> prevValueUsd[1]]
             ap  == RatioAbs(pct)
             severity == Bands(RatioAtLeast(ap, 20), RatioAtLeast(ap, 10),
                               RatioAtLeast(ap, 5))
         IN  IF severity = None THEN Block(<<>>, <<>>)
             ELSE Block(<<Signal(day, netuid, severity[1], "POSITION_VALUE_SHOCK",
                                 "yesterday",
                                 [valueUsd |-> todayValueUsd[1],
                                  prevValueUsd |-> prevValueUsd[1],
                                  pctChange |-> pct])>>, <<>>)
    ELSE Block(<<>>, <<>>)

\* D4, mutant: WARN already from a weight of 0.20
ConcentrationRisk_WarnAt20(day, netuid, todayValueUsd, portfolioTotalUsd) ==
    IF portfolioTotalUsd # None /\ portfolioTotalUsd[1] > 0 /\ todayValueUsd # None
    THEN LET w == [num |-> todayValueUsd[1], den |-> portfolioTotalUsd[1]]
             severity == Bands(RatioAtLeast(w, 35), RatioAtLeast(w, 20),
                               RatioAtLeast(w, 15))
         IN  IF severity = None THEN Block(<<>>, <<>>)
             ELSE Block(<<Signal(day, netuid, severity[1], "CONCENTRATION_RISK",
                                 "weight",
                                 [weight |-> w, valueUsd |-> todayValueUsd[1],
                                  portfolioTotalUsd |-> portfolioTotalUsd[1]])>>, <<>>)
    ELSE Block(<<>>, <<>>)

\* D4: CONCENTRATION_RISK
ConcentrationRisk(day, netuid, todayValueUsd, portfolioTotalUsd) ==
    IF portfolioTotalUsd # None /\ portfolioTotalUsd[1] > 0 /\ todayValueUsd # None
    THEN LET w == [num |-> todayValueUsd[1], den |-> portfolioTotalUsd[1]]
             severity == Bands(RatioAtLeast(w, 35), RatioAtLeast(w, 25),
                               RatioAtLeast(w, 15))
         IN  IF severity = None THEN Block(<<>>, <<>>)
             ELSE Block(<<Signal(day, netuid, severity[1], "CONCENTRATION_RISK",
                                 "weight",
                                 [weight |-> w, valueUsd |-> todayValueUsd[1],
                                  portfolioTotalUsd |-> portfolioTotalUsd[1]])>>, <<>>)
    ELSE Block(<<>>, <<>>)

----------------------------------------------------------------------------
(* Signals route: handler *)

\* positions.find((p) => p.netuid === netuid)
FindPos(positions, netuid) ==
    LET hits == {i \in 1..Len(positions) : positions[i].netuid = netuid}
    IN  IF hits = {} THEN None
        ELSE Some(positions[CHOOSE i \in hits : \A j \in hits : i <= j])

\* new Map(prevPos.map((p) => [p.netuid, {...}])).get(netuid): the last row
\* of the netuid wins
MapGetPrev(prevPos, netuid) ==
    LET hits == {i \in 1..Len(prevPos) : prevPos[i].netuid = netuid}
    IN  IF hits = {} THEN None
        ELSE Some(prevPos[CHOOSE i \in hits : \A j \in hits : i >= j])

RECURSIVE CatBlocks(_, _)
\* the signals (or the missing entries) of the blocks, in push order
CatBlocks(blocks, f) ==
    IF blocks = <<>> THEN <<>> ELSE Head(blocks)[f] \o CatBlocks(Tail(blocks), f)

\* the body of for (const netuid of heldNetuids)
SignalsForNetuid(day, prevDay, netuid, positions, prevPos, portfolioTotalUsd) ==
    LET today     == getMetricRowByDay(netuid, day)
        yesterday == getMetricRowByDay(netuid, prevDay)
        hist30    == getMetricHistory(netuid, day, HistoryLimit)
        flowToday == IF today = None THEN None ELSE toNum(today[1].flow24h)
        emisToday == IF today = None THEN None ELSE toNum(today[1].emissionPct)
        liqToday  == IF today = None THEN None ELSE toNum(today[1].liquidity)
        todayPos  == FindPos(positions, netuid)
        todayValueUsd == IF todayPos # None THEN toNum(todayPos[1].valueUsd) ELSE None
        prevEntry == MapGetPrev(prevPos, netuid)
        prevValueUsd == IF prevEntry # None THEN toNum(prevEntry[1].valueUsd) ELSE None
        blocks ==
            <<FlowSpike(day, netuid, flowToday, HistValues(hist30, "flow24h"), yesterday),
              NegativeFlowStreak(day, netuid, flowToday),
              EmissionShock(day, netuid, emisToday, HistValues(hist30, "emissionPct"), yesterday),
              LiquidityDrain(day, netuid, liqToday, HistValues(hist30, "liquidity"), yesterday),
              PositionValueShock(day, netuid, todayValueUsd, prevValueUsd),
              ConcentrationRisk(day, netuid, todayValueUsd, portfolioTotalUsd)>>
    IN  \* if (!today) { metaMissing.push(...); continue; }
        IF today = None THEN Block(<<>>, <<MissingMetricRow(day, netuid)>>)
        ELSE Block(CatBlocks(blocks, "signals"), CatBlocks(blocks, "missing"))

RECURSIVE SignalsLoop(_, _, _, _, _, _, _)
\* for (const netuid of heldNetuids) { ... }
SignalsLoop(held, day, prevDay, positions, prevPos, portfolioTotalUsd, acc) ==
    IF held = <<>> THEN acc
    ELSE LET b == SignalsForNetuid(day, prevDay, Head(held), positions, prevPos,
                                   portfolioTotalUsd)
         IN  SignalsLoop(Tail(held), day, prevDay, positions, prevPos, portfolioTotalUsd,
                         Block(acc.signals \o b.signals, acc.missing \o b.missing))

\* the comparator of signals.sort: severity desc, then netuid asc
SignalBefore(a, b) ==
    \/ sevRank(a.severity) > sevRank(b.severity)
    \/ sevRank(a.severity) = sevRank(b.severity) /\ a.netuid < b.netuid

\* signals.sort(...), mutant: the signals stay in the order of the loop
SortSignals_LoopOrder(sigs) == sigs

RECURSIVE SortSignals(_)
\* signals.sort(...): stable
SortSignals(sigs) ==
    IF sigs = <<>> THEN <<>>
    ELSE LET i == CHOOSE j \in 1..Len(sigs) :
                     /\ \A l \in 1..Len(sigs) : ~SignalBefore(sigs[l], sigs[j])
                     /\ \A l \in 1..(j - 1) : SignalBefore(sigs[j], sigs[l])
             rest == [l \in 1..(Len(sigs) - 1) |-> IF l < i THEN sigs[l] ELSE sigs[l + 1]]
         IN  <<sigs[i]>> \o SortSignals(rest)

RECURSIVE Dedup(_)
\* Array.from(new Set(xs)): first occurrences, in order
Dedup(xs) ==
    IF xs = <<>> THEN <<>>
    ELSE LET front == Dedup(SubSeq(xs, 1, Len(xs) - 1))
             x     == xs[Len(xs)]
         IN  IF \E i \in 1..Len(front) : front[i] = x THEN front ELSE Append(front, x)

RECURSIVE SortNums(_)
\* Array.from(new Set(...)).sort((a, b) => a - b)
SortNums(S) ==
    IF S = {} THEN <<>>
    ELSE LET m == CHOOSE x \in S : \A y \in S : x <= y
         IN  <<m>> \o SortNums(S \ {m})

\* the latest snapshot among S, by capturedAt
LatestSnap(S) == CHOOSE r \in S : \A q \in S : r.capturedAt >= q.capturedAt

\* the response meta, mutant: never reports partial
SignalsMeta_NeverPartial(metaMissing, heldNetuids, prevPortSnap) ==
    [partial |-> FALSE, missing |-> Dedup(metaMissing), heldNetuids |-> heldNetuids,
     note |-> IF prevPortSnap # None THEN None ELSE Some("Prev-day portfolio snapshot missing")]

\* the meta of the response
SignalsMeta(metaMissing, heldNetuids, prevPortSnap) ==
    [partial |-> Len(metaMissing) > 0, missing |-> Dedup(metaMissing),
     heldNetuids |-> heldNetuids,
     note |-> IF prevPortSnap # None THEN None ELSE Some("Prev-day portfolio snapshot missing")]

\* the signals route's GET; positions and prevPos are the rows of the two
\* position queries in the order the database returned them
SignalsGET(positions, prevPos) ==
    IF portfolioSnapshots = {}
    THEN [kind |-> "signals", ok |-> TRUE, day |-> None, signals |-> <<>>,
          meta |-> [partial |-> TRUE, missing |-> <<MissingSnapshots>>,
                    heldNetuids |-> <<>>, note |-> None]]
    ELSE
    LET latestSnap  == LatestSnap(portfolioSnapshots)
        day         == sigDayKey(latestSnap.capturedAt)
        prevDay     == addDaysUtc(day, -1)
        heldNetuids == SortNums({positions[i].netuid : i \in 1..Len(positions)})
        prevPorts   == {r \in portfolioSnapshots : sigDayKey(r.capturedAt) = prevDay}
        prevPortSnap == IF prevPorts = {} THEN None ELSE Some(LatestSnap(prevPorts))
        portfolioTotalUsd == toNum(latestSnap.totalValueUsd)
        totalMissing == IF portfolioTotalUsd = None \/ portfolioTotalUsd[1] <= 0
                        THEN <<MissingPortfolioTotal>> ELSE <<>>
        out == SignalsLoop(heldNetuids, day, prevDay, positions, prevPos,
                           portfolioTotalUsd, Block(<<>>, totalMissing))
    IN  IF heldNetuids = <<>>
        THEN [kind |-> "signals", ok |-> TRUE, day |-> Some(day), signals |-> <<>>,
              meta |-> [partial |-> FALSE, missing |-> <<>>, heldNetuids |-> <<>>,
                        note |-> Some("No held subnet positions found in latest snapshot")]]
        ELSE [kind |-> "signals", ok |-> TRUE, day |-> Some(day),
              signals |-> SortSignals(out.signals),
              meta |-> SignalsMeta(out.missing, heldNetuids, prevPortSnap)]

----------------------------------------------------------------------------
(* Signals route: stored data and requests *)

\* the day of the newest data
Today == MaxHist + 2

\* lengths of the stored metric history of netuid 1
HistLens == {0, 1, MinBaseline - 1, MinBaseline, MaxHist}

HistPatterns == {"alt", "neg", "noflow", "drained"}

\* the i-th oldest history row of a pattern
HistFields(pat, i) ==
    CASE pat = "alt" ->
           [flow24h |-> Some(IF i % 2 = 1 THEN 8 ELSE 12), emissionPct |-> Some(100),
            liquidity |-> Some(IF i % 2 = 1 THEN 90 ELSE 110)]
      [] pat = "neg" ->
           [flow24h |-> Some(-1), emissionPct |-> Some(100), liquidity |-> Some(100)]
      [] pat = "drained" ->
           [flow24h |-> Some(IF i % 2 = 1 THEN 8 ELSE 12), emissionPct |-> Some(100),
            liquidity |-> Some(IF i < MinBaseline THEN 100 ELSE 0)]
      [] OTHER ->
           [flow24h |-> None, emissionPct |-> Some(IF i % 2 = 1 THEN 100 ELSE 140),
            liquidity |-> None]

\* h daily rows of netuid 1 as the cron's ingestion leaves them, ending
\* yesterday, or the day before when yesterday's run was missed
History(h, pat, missedYesterday) ==
    LET last == IF missedYesterday THEN Today - 2 ELSE Today - 1
    IN  {[day |-> last - h + i, netuid |-> 1,
          capturedAt |-> (last - h + i) * TicksPerDay,
          flow24h |-> HistFields(pat, i).flow24h,
          emissionPct |-> HistFields(pat, i).emissionPct,
          liquidity |-> HistFields(pat, i).liquidity] : i \in 1..h}

\* what today's ingestion fetched for a netuid
SigFetches ==
    {[flow24h |-> Some(10), emissionPct |-> Some(100), liquidity |-> Some(50)],
     [flow24h |-> Some(3), emissionPct |-> None, liquidity |-> Some(100)],
     [flow24h |-> None, emissionPct |-> Some(300), liquidity |-> None],
     [flow24h |-> Some(-1), emissionPct |-> Some(100), liquidity |-> Some(100)]}

SigSubnet(netuid, hotkey, valueUsd) ==
    [netuid |-> Some(netuid), hotkey |-> Some(<<hotkey>>), alphaBalance |-> 100,
     valueTao |-> 10, valueUsd |-> valueUsd]

\* /api/portfolio payloads of the snapshots the signals are computed from
SigPayloads ==
    {[root |-> Some([valueTao |-> 5, valueUsd |-> 50]),
      subnets |-> <<SigSubnet(1, "a", 40), SigSubnet(2, "b", 10)>>,
      totalValueTao |-> Some(15), totalValueUsd |-> Some(100)],
     [root |-> Some([valueTao |-> 5, valueUsd |-> 50]),
      subnets |-> <<SigSubnet(1, "a", 20), SigSubnet(1, "c", 30)>>,
      totalValueTao |-> Some(15), totalValueUsd |-> Some(100)],
     [root |-> Some([valueTao |-> 5, valueUsd |-> 50]),
      subnets |-> <<SigSubnet(1, "a", 44), SigSubnet(2, "b", 20)>>,
      totalValueTao |-> Some(15), totalValueUsd |-> None],
     [root |-> Some([valueTao |-> 5, valueUsd |-> 50]),
      subnets |-> <<>>,
      totalValueTao |-> Some(5), totalValueUsd |-> Some(100)],
     [root |-> None,
      subnets |-> <<SigSubnet(1, "a", 40)>>,
      totalValueTao |-> Some(10), totalValueUsd |-> Some(0)]}

\* the orders in which a query may return the rows S
Orderings(S) ==
    {o \in [1..Cardinality(S) -> S] : \A i, j \in 1..Cardinality(S) : o[i] = o[j] => i = j}

\* the subnet rows of a snapshot (none for no snapshot)
SubnetRowsOf(snap) ==
    IF snap = None THEN {}
    ELSE {r \in positionSnapshots :
            r.snapshotId = snap[1].id /\ r.positionType = "subnet"}

\* the snapshot the route takes as the previous day's
PrevPortSnap ==
    LET prevDay == addDaysUtc(sigDayKey(LatestSnap(portfolioSnapshots).capturedAt), -1)
        prevPorts == {r \in portfolioSnapshots : sigDayKey(r.capturedAt) = prevDay}
    IN  IF portfolioSnapshots = {} \/ prevPorts = {} THEN None
        ELSE Some(LatestSnap(prevPorts))

\* a completed cron run of the day stored a snapshot and its positions
SigTakeSnapshot ==
    /\ \E day \in {Today - 1, Today}, json \in SigPayloads :
         /\ \A r \in portfolioSnapshots : sigDayKey(r.capturedAt) # day
         /\ LET sid  == Cardinality(portfolioSnapshots) + 1
                rows == BuildPositionRows(sid, json)
            IN  /\ portfolioSnapshots' = portfolioSnapshots \cup
                      {[id |-> sid, capturedAt |-> day * TicksPerDay,
                        totalValueTao |-> json.totalValueTao,
                        totalValueUsd |-> json.totalValueUsd]}
                /\ positionSnapshots' = positionSnapshots \cup
                      {rows[i] @@ [rowNo |-> i] : i \in 1..Len(rows)}
    /\ sigResp' = NoResp
    /\ UNCHANGED <<subnetMetricSnapshots, cronVars, perfResp, histResp, call>>

\* today's ingestion upserted the metric row of a netuid
SigIngestMetrics ==
    /\ \E netuid \in {1, 2}, fetched \in SigFetches :
         subnetMetricSnapshots' =
             UpsertMetric(subnetMetricSnapshots, Today, netuid, Today * TicksPerDay, fetched)
    /\ sigResp' = NoResp
    /\ UNCHANGED <<dbVars, cronVars, perfResp, histResp, call>>

\* GET /api/portfolio/signals
GetSignals ==
    /\ sigResp = NoResp
    /\ LET latest == IF portfolioSnapshots = {} THEN None
                     ELSE Some(LatestSnap(portfolioSnapshots))
       IN  \E positions \in Orderings(SubnetRowsOf(latest)),
              prevPos \in Orderings(SubnetRowsOf(PrevPortSnap)) :
             sigResp' = SignalsGET(positions, prevPos)
    /\ UNCHANGED <<dbVars, subnetMetricSnapshots, cronVars, perfResp, histResp, call>>

SignalsInit ==
    /\ portfolioSnapshots = {}
    /\ positionSnapshots = {}
    /\ \E h \in HistLens, pat \in HistPatterns, missedYesterday \in BOOLEAN :
         subnetMetricSnapshots = History(h, pat, missedYesterday)
    /\ cronRuns = {}
    /\ cron = <<>>
    /\ clock = 0
    /\ perfResp = NoResp
    /\ sigResp = NoResp
    /\ histResp = NoResp
    /\ call = NoResp

SignalsNext == SigTakeSnapshot \/ SigIngestMetrics \/ GetSignals

SpecSignals == SignalsInit /\ [][SignalsNext]_vars

----------------------------------------------------------------------------
(* Signals route: properties *)

\* a response of the full path (some subnet is held)
FullSignals == sigResp.kind = "signals" /\ sigResp.meta.heldNetuids # <<>>

\* the day the route takes as today
SigDay == sigDayKey(LatestSnap(portfolioSnapshots).capturedAt)

\* today's subnet rows of the latest snapshot
TodayRows == SubnetRowsOf(Some(LatestSnap(portfolioSnapshots)))

HeldSet == {r.netuid : r \in TodayRows}

\* the response holds a signal of the type for the netuid
HasSignal(netuid, type) ==
    \E i \in 1..Len(sigResp.signals) :
        sigResp.signals[i].netuid = netuid /\ sigResp.signals[i].type = type

InMissing(entry) ==
    \E i \in 1..Len(sigResp.meta.missing) : sigResp.meta.missing[i] = entry

\* the netuid is held through one position today and one the day before
SinglePosition(netuid) ==
    /\ Cardinality({r \in TodayRows : r.netuid = netuid}) = 1
    /\ Cardinality({r \in SubnetRowsOf(PrevPortSnap) : r.netuid = netuid}) <= 1

\* C3: a missing prerequisite of one cell never aborts the other signal types
\* of the same subnet: for a held subnet (also one without a metric row for
\* today) whose position data meet a band of CONCENTRATION_RISK or of
\* POSITION_VALUE_SHOCK, that signal is in the response.
C3_CellsIndependent ==
    FullSignals =>
        \A r \in TodayRows :
            SinglePosition(r.netuid) =>
                /\ ConcentrationRisk(SigDay, r.netuid, toNum(r.valueUsd),
                       toNum(LatestSnap(portfolioSnapshots).totalValueUsd)).signals # <<>>
                     => HasSignal(r.netuid, "CONCENTRATION_RISK")
                /\ \A q \in SubnetRowsOf(PrevPortSnap) :
                     (q.netuid = r.netuid /\
                      PositionValueShock(SigDay, r.netuid, toNum(r.valueUsd),
                                         toNum(q.valueUsd)).signals # <<>>)
                     => HasSignal(r.netuid, "POSITION_VALUE_SHOCK")

ExpectedMissing ==
    (IF LatestSnap(portfolioSnapshots).totalValueUsd = None
        \/ LatestSnap(portfolioSnapshots).totalValueUsd[1] <= 0
     THEN {MissingPortfolioTotal} ELSE {})
    \cup {MissingMetricRow(SigDay, n) :
            n \in {m \in HeldSet : getMetricRowByDay(m, SigDay) = None}}
    \cup {MissingFlow(SigDay, n) :
            n \in {m \in HeldSet : /\ getMetricRowByDay(m, SigDay) # None
                                   /\ getMetricRowByDay(m, SigDay)[1].flow24h = None}}
    \cup {MissingLiquidity(SigDay, n) :
            n \in {m \in HeldSet : /\ getMetricRowByDay(m, SigDay) # None
                                   /\ getMetricRowByDay(m, SigDay)[1].liquidity = None}}

FirstTierSeverity(m) ==
    IF m.baselineCount >= MinBaseline THEN FlowZSeverity(m.z30[1])
    ELSE IF m.prevFlow24h # None THEN FlowPctSeverity(m.delta1[1], m.prevFlow24h[1])
    ELSE FlowAbsSeverity(m.flow24h)

\* C7: the severity of every FLOW_SPIKE signal is the one the first
\* applicable tier gives (z with at least 14 history values, else
\* day-over-day with yesterday's flow, else absolute), so the absolute
\* thresholds decide only when neither of the first two tiers applies.
C7_FirstTierOnly ==
    sigResp.kind = "signals" =>
        \A i \in 1..Len(sigResp.signals) :
            sigResp.signals[i].type = "FLOW_SPIKE" =>
                FirstTierSeverity(sigResp.signals[i].metrics)
                    = Some(sigResp.signals[i].severity)

----------------------------------------------------------------------------
(* History route: helpers *)

\* clampDays(raw) of the history route: 30 without the parameter
histClampDays(raw) ==
    IF raw = None THEN 30
    ELSE Max2(1, IF raw[1] < 365 THEN raw[1] ELSE 365)

\* num(String(x)): the number of a stored decimal, null for "null"
histNum(x) == IF x = None THEN None ELSE Some(x[1])

\* Math.pow(1 + r, 365 / days) is Infinity: 1 + r = end / start reaches
\* 2^(1024 * days / 365), which for days = 1 lies between 6 and 7; the
\* quotients of the stored values are whole below 7 or at least 7, and for
\* the longer windows the bound (over 800000) is beyond them
ApyOverflows(startValueTao, endValueTao, days) ==
    days = 1 /\ endValueTao >= 7 * startValueTao

\* computeApyFromSnapshots: "" (None), or the formatted annualised return of
\* (end - start) / start over the days, kept as the triple it is computed
\* from; it prints as "0.00" when end = start
computeApyFromSnapshots(startValueTao, endValueTao, days) ==
    IF ~(startValueTao > 0) \/ ~(days > 0) THEN None
    ELSE IF ApyOverflows(startValueTao, endValueTao, days) THEN None
    ELSE Some([startValueTao |-> startValueTao, endValueTao |-> endValueTao,
               days |-> days])

\* findPointAtOrBefore, mutant: scans forward and returns the earliest point
findPointAtOrBefore_Forward(series, cutoffMs) ==
    LET hits == {i \in 1..Len(series) : series[i].capturedAt <= cutoffMs}
    IN  IF hits = {} THEN None
        ELSE Some(series[CHOOSE i \in hits : \A j \in hits : i <= j])

RECURSIVE findPointAtOrBefore(_, _)
\* findPointAtOrBefore: scan from the end of the ascending series
findPointAtOrBefore(series, cutoffMs) ==
    IF series = <<>> THEN None
    ELSE IF series[Len(series)].capturedAt <= cutoffMs THEN Some(series[Len(series)])
    ELSE findPointAtOrBefore(SubSeq(series, 1, Len(series) - 1), cutoffMs)

\* isFlowLikely(series) of the history route: |a1 - a0| / a0 > 0.10
histIsFlowLikely(series) ==
    IF Len(series) < 2 THEN FALSE
    ELSE LET a0 == histNum(series[1].alphaBalance)
             a1 == histNum(series[Len(series)].alphaBalance)
         IN  IF a0 = None \/ a1 = None \/ a0[1] <= 0 THEN FALSE
             ELSE Abs(a1[1] - a0[1]) * 10 > a0[1]

\* .limit(500) of the history route's snapshot query
HistSnapLimit == 500

\* selectedSnaps = [...beforeStart, ...inRange]
HistSelect(snaps, nowMs, days) ==
    LET startMs == nowMs - days * TicksPerDay
        upToNow == LatestN({r \in snaps : r.capturedAt <= nowMs}, HistSnapLimit)
        inRange == {r \in upToNow : r.capturedAt >= startMs}
        before  == {r \in upToNow : r.capturedAt < startMs}
        beforeStart == IF before = {} THEN {} ELSE {LatestSnap(before)}
    IN  SortAsc(beforeStart \cup inRange)

\* `${positionType}:${netuid}:${hotkey ?? ""}`
HistKey(r) ==
    <<r.positionType>> \o <<":">> \o NumStr(r.netuid) \o <<":">>
        \o (IF r.hotkey = None THEN <<>> ELSE r.hotkey[1])

RECURSIVE SortPoints(_)
\* pos.series.sort by capturedAt
SortPoints(S) ==
    IF S = {} THEN <<>>
    ELSE LET m == CHOOSE r \in S : \A q \in S : r.capturedAt <= q.capturedAt
         IN  <<m>> \o SortPoints(S \ {m})

\* snapTime.get(snapshotId)
SnapTime(selected, sid) ==
    selected[CHOOSE i \in 1..Len(selected) : selected[i].id = sid].capturedAt

\* the series of one position key over the selected snapshots
SeriesOf(selected, posRows, key) ==
    SortPoints({[capturedAt |-> SnapTime(selected, r.snapshotId),
                 valueTao |-> r.valueTao, alphaBalance |-> r.alphaBalance] :
                  r \in {q \in posRows : HistKey(q) = key}})

\* one window of the loop: set only if (endVal !== null && v !== null)
ApyWindow(series, endVal, endMs, days) ==
    LET p == findPointAtOrBefore(series, endMs - days * TicksPerDay)
        v == IF p # None THEN histNum(p[1].valueTao) ELSE None
    IN  IF endVal # None /\ v # None
        THEN computeApyFromSnapshots(v[1], endVal[1], days) ELSE None

\* the PositionHistory of one key
PositionHistory(selected, posRows, key, endMs) ==
    LET first  == CHOOSE r \in posRows : HistKey(r) = key
        series == SeriesOf(selected, posRows, key)
        endVal == histNum(series[Len(series)].valueTao)
    IN  [positionType |-> first.positionType, netuid |-> first.netuid,
         hotkey |-> first.hotkey, series |-> series,
         apy |-> [oneDayPct    |-> ApyWindow(series, endVal, endMs, 1),
                  sevenDayPct  |-> ApyWindow(series, endVal, endMs, 7),
                  thirtyDayPct |-> ApyWindow(series, endVal, endMs, 30)],
         flags |-> [flowLikely |-> IF first.positionType = "subnet"
                                   THEN histIsFlowLikely(series) ELSE FALSE]]

\* root first, then subnets by netuid
HistBefore(a, b) ==
    IF a.positionType # b.positionType THEN a.positionType = "root"
    ELSE a.netuid < b.netuid

RECURSIVE SortPositions(_)
\* positions.sort(...)
SortPositions(S) ==
    IF S = {} THEN <<>>
    ELSE LET m == CHOOSE r \in S : \A q \in S : q = r \/ ~HistBefore(q, r)
         IN  <<m>> \o SortPositions(S \ {m})

\* the history route's GET
HistoryGET(snaps, posRows, nowMs, raw) ==
    LET days     == histClampDays(raw)
        selected == HistSelect(snaps, nowMs, days)
    IN  IF {r \in snaps : r.capturedAt <= nowMs} = {} \/ selected = <<>>
        THEN [kind |-> "history", ok |-> TRUE, days |-> days, nowMs |-> nowMs,
              selected |-> <<>>, endCapturedAt |-> None, positions |-> <<>>]
        ELSE
        LET ids   == {selected[i].id : i \in 1..Len(selected)}
            rows  == {r \in posRows : /\ r.snapshotId \in ids
                                      /\ ~(r.positionType = "subnet" /\ r.netuid = 0)}
            keys  == {HistKey(r) : r \in rows}
            endMs == selected[Len(selected)].capturedAt
        IN  [kind |-> "history", ok |-> TRUE, days |-> days, nowMs |-> nowMs,
             selected |-> [j \in 1..Len(selected) |-> selected[j].id],
             endCapturedAt |-> Some(endMs),
             positions |-> SortPositions({PositionHistory(selected, rows, k, endMs) :
                                            k \in keys})]

----------------------------------------------------------------------------
(* History route: stored data and requests *)

\* the days on which the cron ran
SnapDays == {0, 1, 24, 25, 30, 31}

\* what a snapshot holds of the subnet position: nothing, or its alpha
\* balance and TAO value (null: the column is empty)
HistHoldings ==
    {None,
     Some([alphaBalance |-> Some(0), valueTao |-> Some(0)]),
     Some([alphaBalance |-> Some(100), valueTao |-> Some(10)]),
     Some([alphaBalance |-> Some(120), valueTao |-> Some(11)]),
     Some([alphaBalance |-> Some(100), valueTao |-> None])}

\* the rows the cron writes for a snapshot: the root row and the subnet row
HistPositionRows(sid, holding) ==
    {[snapshotId |-> sid, positionType |-> "root", netuid |-> 0, hotkey |-> None,
      alphaBalance |-> None, valueTao |-> Some(5)]}
    \cup (IF holding = None THEN {}
          ELSE {[snapshotId |-> sid, positionType |-> "subnet", netuid |-> 1,
                 hotkey |-> Some(<<"a">>), alphaBalance |-> holding[1].alphaBalance,
                 valueTao |-> holding[1].valueTao]})

\* a cron run of a later day stored a snapshot and its positions
HistTakeSnapshot ==
    /\ Cardinality(portfolioSnapshots) < MaxSnaps
    /\ \E day \in SnapDays, holding \in HistHoldings :
         /\ \A r \in portfolioSnapshots : r.capturedAt < day * TicksPerDay
         /\ LET sid == Cardinality(portfolioSnapshots) + 1
            IN  /\ portfolioSnapshots' = portfolioSnapshots \cup
                      {[id |-> sid, capturedAt |-> day * TicksPerDay,
                        totalValueTao |-> Some(5), totalValueUsd |-> None]}
                /\ positionSnapshots' = positionSnapshots \cup HistPositionRows(sid, holding)
    /\ histResp' = NoResp
    /\ UNCHANGED <<subnetMetricSnapshots, cronVars, perfResp, sigResp, call>>

\* GET /api/portfolio/history?days=raw
GetHistory ==
    /\ histResp = NoResp
    /\ \E raw \in {None, Some(1), Some(40)}, late \in {0, TicksPerDay} :
         histResp' = HistoryGET(portfolioSnapshots, positionSnapshots,
                                LatestCapturedAt + late, raw)
    /\ UNCHANGED <<dbVars, subnetMetricSnapshots, cronVars, perfResp, sigResp, call>>

HistoryInit == PerfInit

HistoryNext == HistTakeSnapshot \/ GetHistory

SpecHistory == HistoryInit /\ [][HistoryNext]_vars

----------------------------------------------------------------------------
(* History route: properties *)

\* a response with positions; T is its end timestamp
HasHistory == histResp.kind = "history" /\ histResp.endCapturedAt # None

HistEndMs == histResp.endCapturedAt[1]

HistPositions == {histResp.positions[i] : i \in 1..Len(histResp.positions)}

\* the window fields of a position, with their lengths in days
Windows(pos) ==
    {[days |-> 1, field |-> pos.apy.oneDayPct],
     [days |-> 7, field |-> pos.apy.sevenDayPct],
     [days |-> 30, field |-> pos.apy.thirtyDayPct]}

\* the points of a series captured at or before the cutoff of a window
PointsBefore(pos, days) ==
    {i \in 1..Len(pos.series) : pos.series[i].capturedAt <= HistEndMs - days * TicksPerDay}

\* C8: a numeric APY of a window of d days comes only from a start point at
\* or before T - d days with a positive value together with the position's
\* value at T; a position without a point at T has no numeric APY.
C8_ApyOnlyFromWindowData ==
    HasHistory =>
        \A pos \in HistPositions : \A w \in Windows(pos) :
            w.field # None =>
                /\ \E i \in PointsBefore(pos, w.days) :
                     /\ pos.series[i].valueTao # None
                     /\ pos.series[i].valueTao[1] > 0
                     /\ pos.series[i].valueTao[1] = w.field[1].startValueTao
                /\ \E i \in 1..Len(pos.series) :
                     /\ pos.series[i].capturedAt = HistEndMs
                     /\ pos.series[i].valueTao = Some(w.field[1].endValueTao)

\* C9: a window with no point at or before T - d days (d = 1, 7, 30) has the
\* empty marker, a numeric window starts from the latest such point, and
\* findPointAtOrBefore returns the latest point at or before the cutoff, or
\* none.
C9_NoPointNoApy ==
    HasHistory =>
        \A pos \in HistPositions : \A w \in Windows(pos) :
            LET hits == PointsBefore(pos, w.days)
                p    == findPointAtOrBefore(pos.series, HistEndMs - w.days * TicksPerDay)
            IN  /\ hits = {} => w.field = None /\ p = None
                /\ hits # {} =>
                     /\ p = Some(pos.series[CHOOSE i \in hits : \A j \in hits : j <= i])
                     /\ w.field # None => w.field[1].startValueTao = p[1].valueTao[1]

\* C9 witness: a position whose 7-day window has no point while its 1-day
\* window is numeric from the later of two points before that cutoff
C9_Witness ==
    /\ HasHistory
    /\ \E pos \in HistPositions :
         /\ PointsBefore(pos, 7) = {}
         /\ pos.apy.sevenDayPct = None
         /\ Cardinality(PointsBefore(pos, 1)) >= 2
         /\ pos.apy.oneDayPct # None
         /\ pos.series[1].valueTao # Some(pos.apy.oneDayPct[1].startValueTao)

----------------------------------------------------------------------------
(* Performance route: isFlowLikely as a function of its arguments *)

\* alpha balances and TAO values passed to isFlowLikely
FlowAlphaArgs == {0, 100, 105, 106, 200}

FlowValueArgs == {0, 10, 12}

\* thresholds in percent (a fraction of the start value, not negative);
\* None is the omitted option, which takes the default
FlowThresholdArgs == {None, Some(0), Some(5), Some(50)}

\* the default of an omitted threshold
OrDefault(opt, default) == IF opt = None THEN default ELSE opt[1]

\* isFlowLikely(opts) with the options given
FlowLikelyOf(c) ==
    isFlowLikely(c.alphaStart, c.alphaEnd, c.valueTaoStart, c.valueTaoEnd,
                 OrDefault(c.alphaPctThreshold, AlphaPctThresholdPct),
                 OrDefault(c.valuePctThreshold, ValuePctThresholdPct))

\* a call of isFlowLikely
CallIsFlowLikely ==
    /\ call = NoResp
    /\ \E a0 \in FlowAlphaArgs, a1 \in FlowAlphaArgs,
          v0 \in FlowValueArgs, v1 \in FlowValueArgs,
          at \in FlowThresholdArgs, vt \in FlowThresholdArgs :
         LET c == [alphaStart |-> a0, alphaEnd |-> a1, valueTaoStart |-> v0,
                   valueTaoEnd |-> v1, alphaPctThreshold |-> at,
                   valuePctThreshold |-> vt]
         IN  call' = [kind |-> "isFlowLikely", opts |-> c, result |-> FlowLikelyOf(c)]
    /\ UNCHANGED <<dbVars, subnetMetricSnapshots, cronVars, perfResp, sigResp, histResp>>

FlowInit == PerfInit

FlowNext == CallIsFlowLikely

SpecFlow == FlowInit /\ [][FlowNext]_vars

\* the call exceeds the alpha threshold: alphaEnd - alphaStart is more than
\* alphaPctThreshold * alphaStart, with alphaStart > 0
ExceedsAlphaThreshold(c) ==
    /\ c.alphaStart > 0
    /\ (c.alphaEnd - c.alphaStart) * 100
          > OrDefault(c.alphaPctThreshold, AlphaPctThresholdPct) * c.alphaStart

\* C11: with alphaStart > 0, once alphaEnd - alphaStart exceeds
\* alphaPctThreshold * alphaStart the result is true, and it is true for
\* every larger alphaEnd with the other arguments unchanged.
C11_FlowMonotone ==
    (call.kind = "isFlowLikely" /\ ExceedsAlphaThreshold(call.opts)) =>
        /\ call.result
        /\ \A a1 \in FlowAlphaArgs :
             a1 >= call.opts.alphaEnd
                => FlowLikelyOf([call.opts EXCEPT !.alphaEnd = a1])

\* C11 witness: the 6% increase 100 -> 106 under the default 5% threshold is
\* flagged although the TAO value did not move
C11_Witness ==
    /\ call.kind = "isFlowLikely"
    /\ call.opts.alphaStart = 100 /\ call.opts.alphaEnd = 106
    /\ call.opts.alphaPctThreshold = None
    /\ call.opts.valueTaoStart = call.opts.valueTaoEnd
    /\ call.result

\* C12: isFlowLikely is false whenever alphaEnd - alphaStart <= 0, whatever
\* the start balance, the TAO values and the thresholds.
C12_NoFlowWithoutIncrease ==
    (call.kind = "isFlowLikely" /\ call.opts.alphaEnd - call.opts.alphaStart <= 0)
        => ~call.result

\* C12 witness: a non-increasing alpha with a TAO value change beyond both
\* thresholds, not flagged
C12_Witness ==
    /\ call.kind = "isFlowLikely"
    /\ call.opts.alphaEnd < call.opts.alphaStart
    /\ call.opts.valueTaoStart = 10 /\ call.opts.valueTaoEnd = 0
    /\ call.opts.valuePctThreshold = Some(0)
    /\ ~call.result

----------------------------------------------------------------------------
(* Signals route: further properties *)

\* the latest snapshot as the route reads it (none for an empty table)
LatestOrNone ==
    IF portfolioSnapshots = {} THEN None ELSE Some(LatestSnap(portfolioSnapshots))

\* C13: computing the signals again over the stored data the response was
\* computed from gives the same response (same signals, same ids), and no
\* two signals of a response have the same id.
C13_Idempotent ==
    sigResp.kind = "signals" =>
        /\ \A positions \in Orderings(SubnetRowsOf(LatestOrNone)),
              prevPos \in Orderings(SubnetRowsOf(PrevPortSnap)) :
             SignalsGET(positions, prevPos) = sigResp
        /\ \A i, j \in 1..Len(sigResp.signals) :
             sigResp.signals[i].id = sigResp.signals[j].id => i = j

\* C16: the signals of a response are in order of severity, the most severe
\* first, and signals of equal severity in ascending order of netuid.
C16_SignalsOrdered ==
    sigResp.kind = "signals" =>
        \A i, j \in 1..Len(sigResp.signals) :
            i < j =>
               LET a == sigResp.signals[i]
                   b == sigResp.signals[j]
               IN  \/ sevRank(a.severity) > sevRank(b.severity)
                   \/ sevRank(a.severity) = sevRank(b.severity) /\ a.netuid <= b.netuid

\* C16 witness: a response with signals of two severities in which a more
\* severe signal of netuid 2 precedes a signal of netuid 1, and two signals
\* of equal severity belong to different netuids
C16_Witness ==
    /\ FullSignals
    /\ \E i, j \in 1..Len(sigResp.signals) :
          /\ i < j
          /\ sigResp.signals[i].netuid = 2 /\ sigResp.signals[j].netuid = 1
          /\ sevRank(sigResp.signals[i].severity) > sevRank(sigResp.signals[j].severity)
    /\ \E i, j \in 1..Len(sigResp.signals) :
          /\ sigResp.signals[i].netuid < sigResp.signals[j].netuid
          /\ sigResp.signals[i].severity = sigResp.signals[j].severity

----------------------------------------------------------------------------
(* Performance route: further properties *)

\* C17: the contributors are in descending order of taoImpactEstStaking,
\* and contributors of equal taoImpactEstStaking in descending order of
\* taoImpactEstNet.
C17_ContributorsOrdered ==
    HasKpis =>
        \A i, j \in 1..Len(perfResp.contributors) :
            i < j =>
               LET a == perfResp.contributors[i]
                   b == perfResp.contributors[j]
               IN  \/ a.taoImpactEstStaking > b.taoImpactEstStaking
                   \/ /\ a.taoImpactEstStaking = b.taoImpactEstStaking
                      /\ a.taoImpactEstNet >= b.taoImpactEstNet

\* C17 witness: two contributors of equal staking impact, the one of the
\* larger net impact first
C17_Witness ==
    /\ HasKpis
    /\ Len(perfResp.contributors) = 2
    /\ perfResp.contributors[1].taoImpactEstStaking
          = perfResp.contributors[2].taoImpactEstStaking
    /\ perfResp.contributors[1].taoImpactEstNet
          > perfResp.contributors[2].taoImpactEstNet

----------------------------------------------------------------------------
(* Cron snapshot handler: further properties *)

\* the metric fields of a stored row
MetricFields == {"flow24h", "emissionPct", "liquidity"}

\* C14: a metric row is repairable by ingesting again: there is one row per
\* (day, netuid), and no step turns a stored value of a field back into
\* null (a later ingestion only fills in what was missing).
C14_Repairable ==
    [][/\ \A q1, q2 \in subnetMetricSnapshots' :
            (q1.day = q2.day /\ q1.netuid = q2.netuid) => q1 = q2
       /\ \A r \in subnetMetricSnapshots :
            \E q \in subnetMetricSnapshots' :
                /\ q.day = r.day /\ q.netuid = r.netuid
                /\ \A f \in MetricFields : r[f] # None => q[f] # None]_vars

----------------------------------------------------------------------------
(* The selection window of the performance and history routes *)

\* the days on which the cron stored a snapshot
SelDays == {1, 2, 3, 4, 40}

\* a cron run of a later day stored a snapshot (with its root row)
SelTakeSnapshot ==
    /\ Cardinality(portfolioSnapshots) < MaxSnaps
    /\ \E day \in SelDays :
         /\ \A r \in portfolioSnapshots : r.capturedAt < day * TicksPerDay
         /\ LET sid == Cardinality(portfolioSnapshots) + 1
            IN  /\ portfolioSnapshots' = portfolioSnapshots \cup
                      {[id |-> sid, capturedAt |-> day * TicksPerDay,
                        totalValueTao |-> Some(2)]}
                /\ positionSnapshots' = positionSnapshots \cup PositionRows(sid, NoPositions)
    /\ perfResp' = NoResp
    /\ histResp' = NoResp
    /\ UNCHANGED <<subnetMetricSnapshots, cronVars, sigResp, call>>

SelectInit == PerfInit

SelectNext == SelTakeSnapshot \/ GetPerformance \/ GetHistory

SpecSelect == SelectInit /\ [][SelectNext]_vars

\* the stored snapshot with an id
StoredSnap(id) == CHOOSE r \in portfolioSnapshots : r.id = id

\* the snapshots with capturedAt in [nowMs - days, nowMs]
InWindow(nowMs, days) ==
    {r \in portfolioSnapshots :
        nowMs - days * TicksPerDay <= r.capturedAt /\ r.capturedAt <= nowMs}

\* the most recent snapshot strictly before nowMs - days, if any
LastBefore(nowMs, days) ==
    {r \in portfolioSnapshots :
        /\ r.capturedAt < nowMs - days * TicksPerDay
        /\ \A q \in portfolioSnapshots :
             q.capturedAt < nowMs - days * TicksPerDay => q.capturedAt <= r.capturedAt}

\* a response's selection is the window and the last snapshot before it, in
\* ascending order of capturedAt
IsWindowSelection(resp) ==
    /\ {resp.selected[i] : i \in 1..Len(resp.selected)}
          = {r.id : r \in InWindow(resp.nowMs, resp.days) \cup LastBefore(resp.nowMs, resp.days)}
    /\ \A i, j \in 1..Len(resp.selected) :
          i < j => StoredSnap(resp.selected[i]).capturedAt
                      < StoredSnap(resp.selected[j]).capturedAt
    /\ \A i \in 1..Len(resp.selected) :
          StoredSnap(resp.selected[i]).capturedAt < resp.nowMs - resp.days * TicksPerDay
             => i = 1

----------------------------------------------------------------------------
(* Performance route: insufficient data *)

\* fewer than 2 snapshots are stored, or fewer than 2 are in the selection
\* of the request the response answers
Insufficient ==
    \/ Cardinality({r \in portfolioSnapshots : r.capturedAt <= perfResp.nowMs}) < 2
    \/ Cardinality(InWindow(perfResp.nowMs, perfResp.days)
                     \cup LastBefore(perfResp.nowMs, perfResp.days)) < 2

\* the 'not enough data' result
IsNotEnoughResult ==
    /\ perfResp.ok /\ perfResp.status = 200 /\ perfResp.error = None
    /\ perfResp.kpis = None
    /\ perfResp.contributors = <<>> /\ perfResp.daily = <<>>
    /\ perfResp.note # None

----------------------------------------------------------------------------
(* Performance route: the attribution loop *)

\* the stored subnet rows of an identity in a snapshot (none or one)
RowsOf(sid, id) ==
    {r \in positionSnapshots :
        /\ r.snapshotId = sid /\ r.positionType = "subnet"
        /\ r.netuid = id.netuid /\ r.hotkey = id.hotkey}

\* the identity's alpha in a snapshot, 0 when it has no row there
AlphaAt(sid, id) ==
    IF RowsOf(sid, id) = {} THEN 0
    ELSE (CHOOSE r \in RowsOf(sid, id) : TRUE).alphaBalance[1]

\* valueTao / alpha of the identity in a snapshot, in units of 1 / ImpactScale;
\* 0 when it has no row there or its alpha is zero
PriceAt(sid, id) ==
    IF RowsOf(sid, id) = {} \/ AlphaAt(sid, id) = 0 THEN 0
    ELSE ((CHOOSE r \in RowsOf(sid, id) : TRUE).valueTao[1] * ImpactScale)
            \div AlphaAt(sid, id)

\* the earned delta of the identity over the i-th pair of selected snapshots
EarnedOver(i, id) ==
    AlphaAt(perfResp.selected[i + 1], id) - AlphaAt(perfResp.selected[i], id)

\* the pairs of consecutive selected snapshots
Pairs == 1..(Len(perfResp.selected) - 1)

\* the contributors reported for an identity
ContributorsOf(id) ==
    {c \in Contributors : c.netuid = Some(id.netuid) /\ c.hotkey = id.hotkey}

\* C19: over each consecutive pair of selected snapshots every identity of
\* either snapshot earns alphaEnd - alphaStart, a missing side counting as
\* alpha 0; zero deltas are skipped, and each delta is valued at the
\* identity's price valueTao / alpha in the END snapshot of the pair, 0 when
\* its end alpha is zero or it is absent from the end snapshot.
C19_AttributionLoop ==
    HasKpis =>
        \A id \in PerfIds :
            /\ (\E i \in Pairs : EarnedOver(i, id) # 0) <=> ContributorsOf(id) # {}
            /\ \A c \in ContributorsOf(id) :
                 /\ c.alphaEarnedNet
                      = SumOver([i \in Pairs |-> EarnedOver(i, id)], Pairs)
                 /\ c.taoImpactEstNet
                      = SumOver([i \in Pairs |->
                                   EarnedOver(i, id)
                                      * PriceAt(perfResp.selected[i + 1], id)], Pairs)

\* C19 witness: over the pairs of one response an identity appears (absent
\* from the start snapshot), an identity disappears (absent from the end
\* snapshot, price 0), an identity ends with alpha zero, and a pair with a
\* zero delta is skipped
C19_Witness ==
    /\ HasKpis
    /\ \E i \in Pairs, id \in PerfIds :
          RowsOf(perfResp.selected[i], id) = {} /\ EarnedOver(i, id) > 0
    /\ \E i \in Pairs, id \in PerfIds :
          RowsOf(perfResp.selected[i + 1], id) = {} /\ EarnedOver(i, id) < 0
    /\ \E i \in Pairs, id \in PerfIds :
          /\ RowsOf(perfResp.selected[i + 1], id) # {}
          /\ AlphaAt(perfResp.selected[i + 1], id) = 0 /\ EarnedOver(i, id) < 0
    /\ \E i \in Pairs, id \in PerfIds :
          /\ RowsOf(perfResp.selected[i], id) # {}
          /\ RowsOf(perfResp.selected[i + 1], id) # {}
          /\ EarnedOver(i, id) = 0
          /\ ContributorsOf(id) # {}

----------------------------------------------------------------------------
(* Signals route: the negative flow streak *)

\* the stored flow of a netuid on a day is negative
NegativeFlowOn(netuid, d) ==
    \E r \in subnetMetricSnapshots :
        /\ r.netuid = netuid /\ r.day = d
        /\ toNum(r.flow24h) # None /\ toNum(r.flow24h)[1] < 0

RECURSIVE CalendarStreak(_, _, _)
\* the consecutive calendar days with negative flow, from day d back over at
\* most left days
CalendarStreak(netuid, d, left) ==
    IF left = 0 \/ ~NegativeFlowOn(netuid, d) THEN 0
    ELSE 1 + CalendarStreak(netuid, d - 1, left - 1)

\* the NEGATIVE_FLOW_STREAK signals of a netuid in the response
StreakSignals(netuid) ==
    {sigResp.signals[i] : i \in {j \in 1..Len(sigResp.signals) :
        /\ sigResp.signals[j].netuid = netuid
        /\ sigResp.signals[j].type = "NEGATIVE_FLOW_STREAK"}}

\* C20: NEGATIVE_FLOW_STREAK counts the consecutive calendar days with
\* flow24h < 0 back from today over at most 10 days, a day with non-negative,
\* null or absent flow ending the streak; it is WARN for 3..6, CRITICAL for
\* 7 or more and not emitted below 3.
C20_CalendarStreak ==
    FullSignals =>
        \A netuid \in HeldSet :
            LET streak == CalendarStreak(netuid, SigDay, StreakLimit)
            IN  /\ streak < 3 => StreakSignals(netuid) = {}
                /\ streak >= 3 =>
                     /\ StreakSignals(netuid) # {}
                     /\ \A sg \in StreakSignals(netuid) :
                          /\ sg.metrics.streakDays = streak
                          /\ sg.severity = IF streak >= 7 THEN "CRITICAL" ELSE "WARN"

----------------------------------------------------------------------------
(* Signals route: the tiers of the emission and liquidity signals *)

\* the signals of a type the response holds for a netuid
SignalsOf(netuid, type) ==
    {sigResp.signals[i] : i \in {j \in 1..Len(sigResp.signals) :
        sigResp.signals[j].netuid = netuid /\ sigResp.signals[j].type = type}}

\* a stored field of the metric row of (netuid, d); None without the row
StoredMetric(netuid, d, field) ==
    LET rows == {r \in subnetMetricSnapshots : r.netuid = netuid /\ r.day = d}
    IN  IF rows = {} THEN None ELSE (CHOOSE r \in rows : TRUE)[field]

\* the non-null values of a field over the 30 latest rows before today
Baseline(netuid, field) ==
    HistValues(getMetricHistory(netuid, SigDay, HistoryLimit), field)

\* the response holds exactly the signal of the severity sev (None: no
\* signal) of a type for a netuid
Emits(netuid, type, sev) ==
    IF sev = None THEN SignalsOf(netuid, type) = {}
    ELSE /\ SignalsOf(netuid, type) # {}
         /\ \A sg \in SignalsOf(netuid, type) : sg.severity = sev[1]

\* the severity C21 gives EMISSION_SHOCK, emission in units of 0.01 pp
EmissionSeverity(netuid) ==
    LET e    == StoredMetric(netuid, SigDay, "emissionPct")
        y    == StoredMetric(netuid, SigDay - 1, "emissionPct")
        hist == Baseline(netuid, "emissionPct")
    IN  IF e = None THEN None
        ELSE IF y # None
        THEN Bands(Abs(e[1] - y[1]) >= 150, Abs(e[1] - y[1]) >= 75,
                   Abs(e[1] - y[1]) >= 25)
        ELSE IF Len(hist) >= MinBaseline
        THEN LET z == zScore(e[1], meanStd(hist)[1])
             IN  Bands(zAbsAtLeast(z, 4), zAbsAtLeast(z, 3), zAbsAtLeast(z, 2))
        ELSE None

\* C21: with yesterday's emissionPct stored, EMISSION_SHOCK is decided by
\* |today - yesterday| alone (0.25 INFO, 0.75 WARN, 1.5 CRITICAL); without
\* it by |z| >= 2/3/4 over at least 14 history points; with neither no
\* signal is emitted.
C21_EmissionTiers ==
    FullSignals =>
        \A netuid \in HeldSet :
            Emits(netuid, "EMISSION_SHOCK", EmissionSeverity(netuid))

\* C21 witness: an EMISSION_SHOCK INFO decided by the move since yesterday
\* while a baseline of 14 points exists and its z is below 2
C21_Witness ==
    /\ FullSignals
    /\ \E sg \in SignalsOf(1, "EMISSION_SHOCK") :
          /\ sg.severity = "INFO"
          /\ sg.metrics.prevEmissionPct # None
          /\ sg.metrics.baselineCount >= MinBaseline
          /\ ~zAbsAtLeast(sg.metrics.z30[1], 2)

\* the severity of the z tier of LIQUIDITY_DRAIN: z <= -2/-3/-4 over at
\* least 14 history points
LiquidityZSeverity(netuid, l) ==
    IF Len(Baseline(netuid, "liquidity")) >= MinBaseline
    THEN LET z == zScore(l, meanStd(Baseline(netuid, "liquidity"))[1])
         IN  Bands(zAtMost(z, 4), zAtMost(z, 3), zAtMost(z, 2))
    ELSE None

\* the severity of the day-over-day tier: pct = (l - y) / y at or below
\* -0.40/-0.25/-0.10; with y = 0 the quotient is no number and meets no band
LiquidityPctSeverity(l, y) ==
    IF y > 0
    THEN LET pct == [num |-> l - y, den |-> y]
         IN  Bands(RatioAtMost(pct, -40), RatioAtMost(pct, -25), RatioAtMost(pct, -10))
    ELSE None

\* C22 as stated: with yesterday's liquidity available LIQUIDITY_DRAIN is
\* decided by pct (<= -0.10 INFO, <= -0.25 WARN, <= -0.40 CRITICAL) before
\* any z-score, otherwise by z <= -2/-3/-4 over at least 14 history points;
\* nothing is emitted when the deciding measure is above its INFO threshold.
C22_DrainByPctWhenAvailable ==
    FullSignals =>
        \A netuid \in HeldSet :
            LET l == StoredMetric(netuid, SigDay, "liquidity")
                y == StoredMetric(netuid, SigDay - 1, "liquidity")
            IN  Emits(netuid, "LIQUIDITY_DRAIN",
                      IF l = None THEN None
                      ELSE IF y # None THEN LiquidityPctSeverity(l[1], y[1])
                      ELSE LiquidityZSeverity(netuid, l[1]))

\* C22 amended: pct decides when yesterday's liquidity is available and
\* positive; when it is missing or zero the z tier decides.
C22_DrainTiers ==
    FullSignals =>
        \A netuid \in HeldSet :
            LET l == StoredMetric(netuid, SigDay, "liquidity")
                y == StoredMetric(netuid, SigDay - 1, "liquidity")
            IN  Emits(netuid, "LIQUIDITY_DRAIN",
                      IF l = None THEN None
                      ELSE IF y # None /\ y[1] > 0
                      THEN LiquidityPctSeverity(l[1], y[1])
                      ELSE LiquidityZSeverity(netuid, l[1]))

\* C22 witness: yesterday's liquidity is stored as 0 and a LIQUIDITY_DRAIN
\* is emitted from the z-score
C22_Witness ==
    /\ FullSignals
    /\ \E sg \in SignalsOf(1, "LIQUIDITY_DRAIN") :
          /\ sg.metrics.prevLiquidity = Some(0)
          /\ sg.metrics.pctChange = None
          /\ zAtMost(sg.metrics.z30[1], 2)

----------------------------------------------------------------------------
(* Signals route: concentration risk *)

\* totalValueUsd of the latest snapshot
PortfolioTotalUsd == toNum(LatestSnap(portfolioSnapshots).totalValueUsd)

\* the band of a weight v / total: 0.15 INFO, 0.25 WARN, 0.35 CRITICAL
WeightBand(v, total) ==
    Bands(v * 100 >= 35 * total, v * 100 >= 25 * total, v * 100 >= 15 * total)

\* C23: every CONCENTRATION_RISK signal carries the band (>= 0.15 INFO,
\* >= 0.25 WARN, >= 0.35 CRITICAL) of valueUsd / totalValueUsd of a position
\* of its netuid; none is emitted for a weight below 0.15 or when the
\* portfolio total is missing or not positive; a subnet whose signals are
\* evaluated (today's metric row exists) and whose weight is at least 0.15
\* gets the signal.
C23_ConcentrationBands ==
    FullSignals =>
        \A netuid \in HeldSet :
            LET rows == {r \in TodayRows : r.netuid = netuid}
                sigs == SignalsOf(netuid, "CONCENTRATION_RISK")
            IN  /\ (PortfolioTotalUsd = None \/ PortfolioTotalUsd[1] <= 0) => sigs = {}
                /\ \A sg \in sigs :
                     \E r \in rows :
                        /\ sg.metrics.valueUsd = toNum(r.valueUsd)[1]
                        /\ sg.metrics.portfolioTotalUsd = PortfolioTotalUsd[1]
                        /\ WeightBand(toNum(r.valueUsd)[1], PortfolioTotalUsd[1])
                              = Some(sg.severity)
                /\ (/\ PortfolioTotalUsd # None /\ PortfolioTotalUsd[1] > 0
                    /\ getMetricRowByDay(netuid, SigDay) # None
                    /\ \A r \in rows :
                          WeightBand(toNum(r.valueUsd)[1], PortfolioTotalUsd[1]) # None)
                      => sigs # {}

\* C23 witness: a position at 20% of the portfolio yields INFO
C23_Witness ==
    /\ FullSignals
    /\ \E sg \in SignalsOf(1, "CONCENTRATION_RISK") :
          /\ sg.severity = "INFO"
          /\ sg.metrics.valueUsd * 100 = 20 * sg.metrics.portfolioTotalUsd

----------------------------------------------------------------------------
(* Cron snapshot handler: fetchWithRetry *)

\* the largest maxRetries passed explicitly
MaxRetriesArg == 2

\* defaults of FetchRetryOpts
DefaultMaxRetries == 6

DefaultBaseDelayMs == 750

DefaultMaxDelayMs == 20000

RetryOnStatuses == {429, 500, 502, 503, 504}

\* Math.floor(Math.random() * 250) is below this
JitterSpan == 250

RECURSIVE Pow2(_)
\* Math.pow(2, attempt)
Pow2(n) == IF n = 0 THEN 1 ELSE 2 * Pow2(n - 1)

\* the retry-after header of a response: absent, a number of seconds, an
\* HTTP date (ms from now, negative when past), or text that is neither
RetryAfterHeaders ==
    {[form |-> "absent", val |-> 0], [form |-> "seconds", val |-> 0],
     [form |-> "seconds", val |-> 30], [form |-> "date", val |-> -5000],
     [form |-> "date", val |-> 1500], [form |-> "text", val |-> 0]}

\* parseRetryAfterMs(res)
parseRetryAfterMs(res) ==
    CASE res.retryAfter.form = "absent"  -> None
      [] res.retryAfter.form = "seconds" -> Some(res.retryAfter.val * 1000)
      [] res.retryAfter.form = "date" ->
           Some(IF res.retryAfter.val > 0 THEN res.retryAfter.val ELSE 0)
      [] OTHER -> None

\* computeBackoffMs, mutant: the exponential part is not capped
computeBackoffMs_Uncapped(attempt, base, max, jitter) == base * Pow2(attempt) + jitter

\* computeBackoffMs(attempt, base, max), jitter being the random draw
computeBackoffMs(attempt, base, max, jitter) ==
    LET exp == IF base * Pow2(attempt) < max THEN base * Pow2(attempt) ELSE max
    IN  exp + jitter

\* what one fetch can end with: a response, or a rejection (network error
\* or the abort of the timeout)
FetchOutcomes ==
    {[kind |-> "res", ok |-> TRUE, status |-> 200, retryAfter |-> [form |-> "absent", val |-> 0]],
     [kind |-> "res", ok |-> FALSE, status |-> 404, retryAfter |-> [form |-> "seconds", val |-> 30]]}
    \cup {[kind |-> "res", ok |-> FALSE, status |-> st, retryAfter |-> h] :
             st \in {429, 503}, h \in RetryAfterHeaders}
    \cup {[kind |-> "err", ok |-> FALSE, status |-> 0, retryAfter |-> [form |-> "absent", val |-> 0]]}

\* fetchWithRetry(url, init, opts) is called
FetchCall ==
    /\ call = NoResp
    /\ \E mr \in {None} \cup {Some(n) : n \in 0..MaxRetriesArg} :
         call' = [kind |-> "fetchWithRetry",
                  maxRetries |-> OrDefault(mr, DefaultMaxRetries),
                  baseDelayMs |-> DefaultBaseDelayMs, maxDelayMs |-> DefaultMaxDelayMs,
                  attempt |-> 0, pc |-> "fetch", fetches |-> 0,
                  last |-> None, lastErr |-> None, hint |-> None, waitMs |-> 0,
                  result |-> None]
    /\ UNCHANGED <<dbVars, subnetMetricSnapshots, cronVars, perfResp, sigResp, histResp>>

\* one pass of the loop body: the fetch settles and the result is handled
FetchAttempt ==
    /\ call.kind = "fetchWithRetry" /\ call.pc = "fetch"
    /\ \E out \in FetchOutcomes, jitter \in {0, JitterSpan - 1} :
         LET c0      == [call EXCEPT !.fetches = @ + 1,
                                     !.last = Some(out @@ [attempt |-> call.attempt])]
             backoff == computeBackoffMs(call.attempt, call.baseDelayMs,
                                         call.maxDelayMs, jitter)
         IN  call' =
               IF out.kind = "res"
               THEN IF out.ok \/ out.status \notin RetryOnStatuses
                    THEN [c0 EXCEPT !.pc = "returned", !.result = c0.last]
                    ELSE LET retryAfterMs == parseRetryAfterMs(out)
                         IN  IF call.attempt < call.maxRetries
                             THEN [c0 EXCEPT !.pc = "sleep", !.hint = retryAfterMs,
                                             !.waitMs = OrDefault(retryAfterMs, backoff)]
                             ELSE [c0 EXCEPT !.pc = "returned", !.result = c0.last]
               ELSE IF call.attempt < call.maxRetries
                    THEN [c0 EXCEPT !.pc = "sleep", !.lastErr = c0.last, !.hint = None,
                                    !.waitMs = backoff]
                    ELSE [c0 EXCEPT !.pc = "threw", !.lastErr = c0.last,
                                    !.result = c0.last]
    /\ UNCHANGED <<dbVars, subnetMetricSnapshots, cronVars, perfResp, sigResp, histResp>>

\* await sleep(waitMs); continue
FetchWake ==
    /\ call.kind = "fetchWithRetry" /\ call.pc = "sleep"
    /\ call' = [call EXCEPT !.pc = "fetch", !.attempt = @ + 1]
    /\ UNCHANGED <<dbVars, subnetMetricSnapshots, cronVars, perfResp, sigResp, histResp>>

FetchInit == PerfInit

FetchNext == FetchCall \/ FetchAttempt \/ FetchWake

SpecFetch == FetchInit /\ [][FetchNext]_vars

\* the timers of the abort and of sleep fire, and a called function runs
SpecFetchLive == SpecFetch /\ WF_vars(FetchNext)

InFetch == call.kind = "fetchWithRetry"

\* the last outcome was a response with a retriable status
LastRetriable ==
    /\ call.last # None /\ call.last[1].kind = "res"
    /\ ~call.last[1].ok /\ call.last[1].status \in RetryOnStatuses

\* the function has returned or thrown
Settled == InFetch /\ call.pc \in {"returned", "threw"}

\* what the claim says of every state of a call, but for the size of the
\* wait: the attempts are bounded, a settled call ended the way the last
\* attempt asks for, and a retry follows only a retriable status or a
\* network error
FetchSafe ==
    InFetch =>
        /\ call.fetches <= call.maxRetries + 1
        /\ call.pc = "fetch" => call.fetches = call.attempt
        /\ call.pc # "fetch" => call.fetches = call.attempt + 1
        /\ call.pc = "returned" =>
              /\ call.result = call.last /\ call.last[1].kind = "res"
              /\ \/ call.last[1].ok
                 \/ call.last[1].status \notin RetryOnStatuses
                 \/ LastRetriable /\ call.fetches = call.maxRetries + 1
        /\ call.pc = "threw" =>
              /\ call.last[1].kind = "err" /\ call.result = call.last
              /\ call.fetches = call.maxRetries + 1
        /\ call.pc = "sleep" =>
              /\ LastRetriable \/ call.last[1].kind = "err"
              /\ call.attempt < call.maxRetries
              /\ (LastRetriable /\ call.hint # None) => call.waitMs = call.hint[1]

\* the exponential part of the backoff of the current attempt
ExpPart ==
    IF call.baseDelayMs * Pow2(call.attempt) < call.maxDelayMs
    THEN call.baseDelayMs * Pow2(call.attempt) ELSE call.maxDelayMs

\* a sleep without a Retry-After hint
BackoffSleep == InFetch /\ call.pc = "sleep" /\ call.hint = None

\* C24 as stated, the size of the wait: without a Retry-After hint the wait
\* is the exponential backoff with jitter, capped at maxDelayMs.
C24_BackoffCapped ==
    BackoffSleep => call.waitMs <= call.maxDelayMs

\* the wait of the amended claim: the exponential part capped at
\* maxDelayMs, plus a jitter below 250 ms on top of it
BackoffJittered ==
    BackoffSleep =>
        /\ call.waitMs >= ExpPart /\ call.waitMs < ExpPart + JitterSpan
        /\ ExpPart <= call.maxDelayMs

\* C24 amended: fetchWithRetry always terminates after at most
\* maxRetries + 1 fetch attempts; it returns the first ok response and a
\* response of a non-retriable status at once, waits the Retry-After hint,
\* else min(maxDelayMs, base * 2^attempt) plus a jitter below 250 ms,
\* between attempts, and after the last attempt returns the last retriable
\* response or throws the last network error.
C24_FetchWithRetry == [](FetchSafe /\ BackoffJittered) /\ <>Settled

\* C24 witness: the seventh attempt of a call with the default options has
\* returned a retriable response after a sleep of the capped backoff
C24_Witness ==
    /\ InFetch /\ call.pc = "returned"
    /\ call.maxRetries = DefaultMaxRetries /\ call.fetches = DefaultMaxRetries + 1
    /\ LastRetriable

----------------------------------------------------------------------------
(* Cron snapshot handler: the position rows *)

\* the stored position rows of a snapshot
RowsOfSnapshot(sid) == {r \in positionSnapshots : r.snapshotId = sid}

\* the value the root row takes from a payload: the root object's, else
\* that of the first entry with netuid 0, else 0
RootValueTaoOf(json) ==
    IF json.root # None THEN json.root[1].valueTao
    ELSE IF \E i \in 1..Len(json.subnets) : json.subnets[i].netuid = Some(0)
    THEN json.subnets[CHOOSE i \in 1..Len(json.subnets) :
                         /\ json.subnets[i].netuid = Some(0)
                         /\ \A j \in 1..(i - 1) : json.subnets[j].netuid # Some(0)].valueTao
    ELSE 0

\* C25: every position row the handler wrote satisfies the data-model
\* invariant: a root row has netuid 0 and no hotkey, a subnet row never has
\* netuid 0 (an upstream entry with netuid 0 goes into the root row), and
\* the rows written for a snapshot hold exactly one root row.
C25_PositionRowInvariant ==
    /\ \A r \in positionSnapshots :
          /\ r.positionType \in {"root", "subnet"}
          /\ r.positionType = "root" => r.netuid = 0 /\ r.hotkey = None
          /\ r.positionType = "subnet" => r.netuid # 0
    /\ \A s \in portfolioSnapshots :
          RowsOfSnapshot(s.id) # {} =>
              Cardinality({r \in RowsOfSnapshot(s.id) : r.positionType = "root"}) = 1
    /\ \A p \in Invocations :
          cron[p].pc = "metrics" =>
              /\ Cardinality(RowsOfSnapshot(cron[p].snapshotId))
                    = 1 + Cardinality({i \in 1..Len(cron[p].portfolioJson[1].subnets) :
                          /\ cron[p].portfolioJson[1].subnets[i].netuid # None
                          /\ cron[p].portfolioJson[1].subnets[i].netuid # Some(0)})
              /\ \A r \in RowsOfSnapshot(cron[p].snapshotId) :
                    r.positionType = "root"
                       => r.valueTao = Some(RootValueTaoOf(cron[p].portfolioJson[1]))

\* C25 witness: a run has written the rows of a payload without a root
\* object whose subnets hold an entry with netuid 0
C25_Witness ==
    \E p \in Invocations :
        /\ cron[p].pc = "metrics"
        /\ cron[p].portfolioJson[1].root = None
        /\ \E i \in 1..Len(cron[p].portfolioJson[1].subnets) :
              cron[p].portfolioJson[1].subnets[i].netuid = Some(0)
        /\ \E r \in RowsOfSnapshot(cron[p].snapshotId) :
              r.positionType = "root" /\ r.valueTao = Some(7)

----------------------------------------------------------------------------
(* Cron snapshot handler: a failure between the two inserts *)

\* the invocation is between the snapshot insert and the positions insert
BetweenInserts(p, sid) ==
    cron[p].pc = "insertPositions" /\ cron[p].snapshotId = sid

\* the snapshot has its root position row
HasRootRow(sid) ==
    \E r \in positionSnapshots : r.snapshotId = sid /\ r.positionType = "root"

\* C26: ingestion is all-or-nothing for a snapshot and its positions: once
\* the invocation that stored a snapshot is past its two inserts (it ended,
\* with success or with a failure between them), the stored snapshot has its
\* root position row.
C26_AllOrNothing ==
    \A s \in portfolioSnapshots :
        \/ \E p \in Invocations : BetweenInserts(p, s.id)
        \/ HasRootRow(s.id)

----------------------------------------------------------------------------
(* Signals route: a netuid held through more than one hotkey *)

\* the subnet rows of the snapshot taken as the previous day's
PrevRows == SubnetRowsOf(PrevPortSnap)

\* C27: POSITION_VALUE_SHOCK and CONCENTRATION_RISK are computed per position
\* identity: the value of today and the value of the day before that a
\* POSITION_VALUE_SHOCK signal compares are those of one position (the same
\* positionType, netuid and hotkey), and the value a CONCENTRATION_RISK
\* signal weighs is that of a position held today, whatever the order in
\* which the position rows are returned.
C27_PerIdentity ==
    FullSignals =>
        \A i \in 1..Len(sigResp.signals) :
            LET s == sigResp.signals[i]
            IN  /\ s.type = "POSITION_VALUE_SHOCK" =>
                     \E r \in TodayRows, q \in PrevRows :
                        /\ r.netuid = s.netuid /\ q.netuid = s.netuid
                        /\ r.positionType = q.positionType /\ r.hotkey = q.hotkey
                        /\ toNum(r.valueUsd) = Some(s.metrics.valueUsd)
                        /\ toNum(q.valueUsd) = Some(s.metrics.prevValueUsd)
                /\ s.type = "CONCENTRATION_RISK" =>
                     \E r \in TodayRows :
                        /\ r.netuid = s.netuid
                        /\ toNum(r.valueUsd) = Some(s.metrics.valueUsd)

----------------------------------------------------------------------------
(* Performance route: sums over the selected window *)

\* the first and the last selected snapshot
FirstSelected == perfResp.selected[1]

LastSelected == perfResp.selected[Len(perfResp.selected)]

\* C28: telescoping: a contributor's alphaEarnedNet is its identity's alpha
\* in the last selected snapshot minus its alpha in the first selected one
\* (0 where the identity has no row), however many snapshots lie between
\* and in whichever of them the identity is missing.
C28_Telescoping ==
    HasKpis =>
        \A c \in Contributors :
            \E id \in PerfIds :
                /\ c \in ContributorsOf(id)
                /\ c.alphaEarnedNet
                      = AlphaAt(LastSelected, id) - AlphaAt(FirstSelected, id)

\* C28 witness: three selected snapshots; one contributor's identity is
\* missing from the middle one and held in the other two, and another's is
\* missing from the first
C28_Witness ==
    /\ HasKpis
    /\ Len(perfResp.selected) = 3
    /\ \E id \in PerfIds :
          /\ ContributorsOf(id) # {}
          /\ RowsOf(perfResp.selected[1], id) # {}
          /\ RowsOf(perfResp.selected[2], id) = {}
          /\ RowsOf(perfResp.selected[3], id) # {}
          /\ AlphaAt(perfResp.selected[3], id) # AlphaAt(perfResp.selected[1], id)
    /\ \E id \in PerfIds :
          ContributorsOf(id) # {} /\ RowsOf(perfResp.selected[1], id) = {}

\* the identity's valueTao in a snapshot, 0 when it has no row there
ValueTaoAt(sid, id) ==
    IF RowsOf(sid, id) = {} THEN 0
    ELSE (CHOOSE r \in RowsOf(sid, id) : TRUE).valueTao[1]

\* the pairs of selected snapshots over which the identity has a non-zero
\* delta that isFlowLikely flags
FlaggedPairs(id) ==
    {i \in Pairs :
        /\ EarnedOver(i, id) # 0
        /\ isFlowLikely(AlphaAt(perfResp.selected[i], id),
                        AlphaAt(perfResp.selected[i + 1], id),
                        ValueTaoAt(perfResp.selected[i], id),
                        ValueTaoAt(perfResp.selected[i + 1], id),
                        AlphaPctThresholdPct, ValuePctThresholdPct)}

\* C29: for every contributor alphaEarnedStakingEst <= alphaEarnedNet, with
\* equality exactly when flowLikelyPeriods is 0, and flowLikelyPeriods is
\* the number of intervals with a non-zero delta that isFlowLikely flagged
\* for the identity.
C29_StakingAtMostNet ==
    HasKpis =>
        \A c \in Contributors :
            /\ c.alphaEarnedStakingEst <= c.alphaEarnedNet
            /\ c.alphaEarnedStakingEst = c.alphaEarnedNet <=> c.flowLikelyPeriods = 0
            /\ \E id \in PerfIds :
                  /\ c \in ContributorsOf(id)
                  /\ c.flowLikelyPeriods = Cardinality(FlaggedPairs(id))

\* C29 witness: one response with a contributor flagged in two intervals and
\* a contributor with a non-zero net flagged in none
C29_Witness ==
    /\ HasKpis
    /\ \E c \in Contributors :
          c.flowLikelyPeriods = 2 /\ c.alphaEarnedStakingEst < c.alphaEarnedNet
    /\ \E c \in Contributors :
          /\ c.flowLikelyPeriods = 0 /\ c.alphaEarnedNet # 0
          /\ c.alphaEarnedStakingEst = c.alphaEarnedNet

----------------------------------------------------------------------------
(* Performance route: the identity key netuid:hotkey *)

KeyMaxSnaps == 2

\* position identities whose keys are exercised: no hotkey, a two-digit
\* netuid, and hotkeys that contain a colon
KeyIds == {[netuid |-> 1, hotkey |-> None],
           [netuid |-> 12, hotkey |-> Some(<<"a">>)],
           [netuid |-> 1, hotkey |-> Some(<<"a", ":", "b">>)],
           [netuid |-> 1, hotkey |-> Some(<<"a", ":", "c">>)]}

KeyAlphas == {None, Some(100), Some(200)}

\* the daily cron has stored one more snapshot; each identity has no row or
\* a row with one of the alphas
KeyStoreSnapshot ==
    /\ Cardinality(portfolioSnapshots) < KeyMaxSnaps
    /\ \E positions \in [KeyIds -> KeyAlphas] :
         LET sid == Cardinality(portfolioSnapshots) + 1
         IN  /\ portfolioSnapshots' = portfolioSnapshots \cup
                    {[id |-> sid, capturedAt |-> sid * TicksPerDay,
                      totalValueTao |-> Some(2)]}
             /\ positionSnapshots' = positionSnapshots \cup
                    {[snapshotId |-> sid, positionType |-> "root", netuid |-> 0,
                      hotkey |-> None, alphaBalance |-> None, valueTao |-> Some(1)]}
                    \cup {[snapshotId |-> sid, positionType |-> "subnet",
                           netuid |-> id.netuid, hotkey |-> id.hotkey,
                           alphaBalance |-> positions[id], valueTao |-> Some(10)] :
                          id \in {i \in KeyIds : positions[i] # None}}
    /\ perfResp' = NoResp
    /\ UNCHANGED <<subnetMetricSnapshots, cronVars, sigResp, histResp, call>>

KeyNext == KeyStoreSnapshot \/ GetPerformance

SpecKey == PerfInit /\ [][KeyNext]_vars

\* the subnet rows of the selected snapshots that were put under the key
RowsUnderKey(k) ==
    {r \in positionSnapshots :
        /\ r.positionType = "subnet"
        /\ \E i \in 1..Len(perfResp.selected) : r.snapshotId = perfResp.selected[i]
        /\ RowKey(r) = k}

\* C30: the key netuid:hotkey round-trips: the netuid and the hotkey
\* reported for a contributor are those of the position rows aggregated
\* under its key (also for a hotkey with a colon and for no hotkey), and
\* rows of distinct identities never share a key.
C30_KeyRoundTrips ==
    HasKpis =>
        /\ \A c \in Contributors :
             /\ RowsUnderKey(c.key) # {}
             /\ \A r \in RowsUnderKey(c.key) :
                   c.netuid = Some(r.netuid) /\ c.hotkey = r.hotkey
        /\ \A r1, r2 \in positionSnapshots :
             (r1.positionType = "subnet" /\ r2.positionType = "subnet"
                 /\ RowKey(r1) = RowKey(r2))
                => r1.netuid = r2.netuid /\ r1.hotkey = r2.hotkey

====
